---- MODULE Spec2Model ----
(***************************************************************************)
(* wsdl2api: type projection, identifier normalisation, SOAP envelope      *)
(* codec, WS-Security header builder, REST bridge and code generation.     *)
(*                                                                         *)
(* A Go string is a sequence of bytes.  An ASCII byte is written as the    *)
(* one-character string of that character, a byte 0xHH >= 0x80 as "xHH".   *)
(***************************************************************************)
EXTENDS Integers, Sequences, FiniteSets, TLC

VARIABLES
  elem,        \* models.Element handed to the type projector
  goType,      \* result of mapXSDTypeToGo(elem.Type)
  oaSchema,    \* result of xsdTypeToOpenAPISchema(elem.Type)
  tsType,      \* result of openAPITypeToTS(oaSchema)
  fieldType,   \* result of getFieldType(elem)
  projDone,    \* which of the projections have been computed
  rawName,     \* name handed to the normalizers
  goName,      \* <<toPascalCase(rawName), toPascalCase of that>>   (pkg/generator)
  tsName,      \* <<toPascalCase(rawName), toPascalCase of that>>   (pkg/typescript)
  normDone,    \* which normalizer calls have been made
  clock,       \* the wall clock time.Now() reads, in ticks
  secArg,      \* the *WSSecurity the last NewSecurityHeader call was given
  secHeader,   \* the *SecurityHeader that call returned
  client,      \* the generated *Client (Nil before NewClient)
  call,        \* the frame of Client.Call (what it built, sent, received and
               \* returned) while the last operation on the client is a Call
  server,      \* the bridge's *Server (Nil before NewServer)
  inbound,     \* the frame of the POST /api/<op> handler (what it built, sent,
               \* received and answered) while the last operation is a request
  files,       \* the output directories: for each file, who wrote it and how far
  runs,        \* the number of generator runs so far
  generated,   \* what the last generator run was and what it returned
  started,     \* whether Server.Start has been called
  calls,        \* the inbound requests in flight: for each, how far its handler is
  wsdl,        \* the WSDL document handed to Parser.Parse
  definitions, \* the *models.Definitions Parse returned (Nil before)
  goTypes,     \* the structs generateTypesImproved wrote to types.go
  openAPI,     \* the *OpenAPISpec ConvertWSDLToOpenAPI returned
  tsTypes,     \* the interfaces the TypeScript generateTypes wrote to types.ts
  clientEndpoint, \* the endpoint generateClientWithSecurity compiled into NewClient
  pipeDone,    \* which steps of the pipeline have run
  urlArg,      \* the url the generated NewClient was last called with
  setterLog,   \* the setters called on the client: the most recent one, the most
               \* recent authentication setter and the most recent SOAP version set
  operators,   \* the functions generateOperatorsImproved wrote to operators.go
  mockHandlers, \* the Mock<Op> functions generateMockServer wrote (Nil without mock)
  routes,      \* the (method, path) pairs setupRoutes registered, in order
  routerPanic, \* whether the router panicked while routes were registered
  opInfo       \* what GET /api/<op>/info last answered

projVars == <<elem, goType, oaSchema, tsType, fieldType, projDone>>
normVars == <<rawName, goName, tsName, normDone>>
secVars == <<clock, secArg, secHeader>>
codecVars == <<client, call, server, inbound>>
genVars == <<files, runs, generated>>
serveVars == <<started, calls>>
pipeVars == <<wsdl, definitions, goTypes, openAPI, tsTypes, clientEndpoint, pipeDone, urlArg>>
logVars == <<setterLog>>
emitVars == <<operators, mockHandlers>>
infoVars == <<routes, routerPanic, opInfo>>
vars == <<projVars, normVars, secVars, codecVars, genVars, serveVars, pipeVars, logVars, emitVars, infoVars>>

(***************************************************************************)
(* Bounds                                                                  *)
(***************************************************************************)
MaxNameLen == 3
MaxOccursNum == 3
\* ticks the clock may advance during a run
MaxAdvance == 6

(***************************************************************************)
(* Byte strings                                                            *)
(***************************************************************************)
LowerLetters ==
  <<"a","b","c","d","e","f","g","h","i","j","k","l","m",
    "n","o","p","q","r","s","t","u","v","w","x","y","z">>

UpperLetters ==
  <<"A","B","C","D","E","F","G","H","I","J","K","L","M",
    "N","O","P","Q","R","S","T","U","V","W","X","Y","Z">>

\* continuation bytes, two-byte lead bytes and the three-byte lead byte of
\* the non-ASCII part of the alphabet
ContBytes == {"x82","x83","x8F","xA2","xA3","xA9","xAF","xBD","xBF"}
Lead2Bytes == {"xC2","xC3"}
Lead3Bytes == {"xEF"}
HighBytes == ContBytes \cup Lead2Bytes \cup Lead3Bytes

\* U+FFFD, written by strings.Map for every byte that is not valid UTF-8
RuneError == <<"xEF","xBF","xBD">>

PosIn(seq, c) == IF \E i \in 1..Len(seq) : seq[i] = c
                 THEN CHOOSE i \in 1..Len(seq) : seq[i] = c
                 ELSE 0

ToUpperASCII(c) == IF PosIn(LowerLetters, c) # 0 THEN UpperLetters[PosIn(LowerLetters, c)] ELSE c

ToLowerASCII(c) == IF PosIn(UpperLetters, c) # 0 THEN LowerLetters[PosIn(UpperLetters, c)] ELSE c

\* strings.ToUpper(string(b)) for one byte b: string(b) is the UTF-8 text of
\* the code point U+00bb, so a byte >= 0x80 becomes two bytes
UpperOfByte(b) ==
  CASE b = "xC2" -> <<"xC3","x82">>
    [] b = "xC3" -> <<"xC3","x83">>
    [] b = "xEF" -> <<"xC3","x8F">>
    [] b \in ContBytes -> <<"xC2", b>>
    [] OTHER -> <<ToUpperASCII(b)>>

\* unicode.ToLower of the rune encoded by lead byte xC3 and continuation c
LowerOfC3(c) ==
  CASE c = "x82" -> <<"xC3","xA2">>
    [] c = "x83" -> <<"xC3","xA3">>
    [] c = "x8F" -> <<"xC3","xAF">>
    [] OTHER -> <<"xC3", c>>

RECURSIVE ToLower(_)
\* strings.ToLower: ASCII letters are lowered, valid runes are lowered, a
\* byte that does not start a valid rune is replaced by U+FFFD
ToLower(s) ==
  IF s = <<>> THEN <<>>
  ELSE LET b == Head(s) IN
    IF b \notin HighBytes
    THEN <<ToLowerASCII(b)>> \o ToLower(Tail(s))
    ELSE IF b = "xC3" /\ Len(s) >= 2 /\ s[2] \in ContBytes
    THEN LowerOfC3(s[2]) \o ToLower(SubSeq(s, 3, Len(s)))
    ELSE IF b = "xC2" /\ Len(s) >= 2 /\ s[2] \in ContBytes
    THEN <<b, s[2]>> \o ToLower(SubSeq(s, 3, Len(s)))
    ELSE IF b \in Lead3Bytes /\ Len(s) >= 3 /\ s[2] \in ContBytes /\ s[3] \in ContBytes
    THEN <<b, s[2], s[3]>> \o ToLower(SubSeq(s, 4, Len(s)))
    ELSE RuneError \o ToLower(Tail(s))

\* strings.LastIndex(s, c): 0 stands for Go's -1
LastIndex(s, c) == IF \E i \in 1..Len(s) : s[i] = c
                   THEN CHOOSE i \in 1..Len(s) : s[i] = c /\ \A j \in (i+1)..Len(s) : s[j] # c
                   ELSE 0

HasPrefix(s, p) == Len(s) >= Len(p) /\ SubSeq(s, 1, Len(p)) = p

Contains(s, p) == \E i \in 1..(Len(s) - Len(p) + 1) : SubSeq(s, i, i + Len(p) - 1) = p

Whitespace == {" ", "\t", "\n", "\r"}

RECURSIVE TrimLeft(_)
TrimLeft(s) == IF s # <<>> /\ Head(s) \in Whitespace THEN TrimLeft(Tail(s)) ELSE s

RECURSIVE TrimRight(_)
TrimRight(s) == IF s # <<>> /\ s[Len(s)] \in Whitespace THEN TrimRight(SubSeq(s, 1, Len(s) - 1)) ELSE s

TrimSpace(s) == TrimRight(TrimLeft(s))

\* the separator predicate both toPascalCase functions hand to FieldsFunc
Separators == {"_", "-", ".", " "}

RECURSIVE FieldsFrom(_, _, _)
FieldsFrom(rest, cur, acc) ==
  IF rest = <<>>
  THEN (IF cur = <<>> THEN acc ELSE Append(acc, cur))
  ELSE IF Head(rest) \in Separators
  THEN FieldsFrom(Tail(rest), <<>>, IF cur = <<>> THEN acc ELSE Append(acc, cur))
  ELSE FieldsFrom(Tail(rest), Append(cur, Head(rest)), acc)

\* strings.FieldsFunc(s, isSeparator): the maximal separator-free substrings
FieldsFunc(s) == FieldsFrom(s, <<>>, <<>>)

RECURSIVE Join(_)
\* strings.Join(words, "")
Join(words) == IF words = <<>> THEN <<>> ELSE Head(words) \o Join(Tail(words))

\* s[idx+1:] after "if idx := strings.LastIndex(s, ":"); idx != -1"
StripPrefix(s) == IF LastIndex(s, ":") # 0 THEN SubSeq(s, LastIndex(s, ":") + 1, Len(s)) ELSE s

(***************************************************************************)
(* Identifier normalizers                                                  *)
(***************************************************************************)
\* words[i] = strings.ToUpper(string(word[0])) + word[1:]
CapitalizeGo(word) == UpperOfByte(word[1]) \o Tail(word)

\* pkg/generator toPascalCase
toPascalCase(s) ==
  LET t == TrimSpace(s) IN
  IF t = <<>> THEN t
  ELSE LET words == FieldsFunc(StripPrefix(t)) IN
       Join([i \in 1..Len(words) |-> CapitalizeGo(words[i])])

\* words[i] = strings.ToUpper(string(word[0])) + strings.ToLower(word[1:])
CapitalizeTS(word) == UpperOfByte(word[1]) \o ToLower(Tail(word))

\* pkg/typescript toPascalCase
toPascalCaseTS(s) ==
  LET t == TrimSpace(s) IN
  IF t = <<>> THEN t
  ELSE LET words == FieldsFunc(t) IN
       Join([i \in 1..Len(words) |-> CapitalizeTS(words[i])])

(***************************************************************************)
(* Type projection                                                         *)
(***************************************************************************)
MapHas(m, k) == \E i \in 1..Len(m) : m[i][1] = k

MapGet(m, k) == m[CHOOSE i \in 1..Len(m) : m[i][1] = k][2]

typeMapGo ==
  <<<<<<"s","t","r","i","n","g">>, <<"s","t","r","i","n","g">>>>,
    <<<<"i","n","t">>, <<"i","n","t">>>>,
    <<<<"i","n","t","e","g","e","r">>, <<"i","n","t">>>>,
    <<<<"l","o","n","g">>, <<"i","n","t","6","4">>>>,
    <<<<"s","h","o","r","t">>, <<"i","n","t","1","6">>>>,
    <<<<"b","y","t","e">>, <<"b","y","t","e">>>>,
    <<<<"b","o","o","l","e","a","n">>, <<"b","o","o","l">>>>,
    <<<<"f","l","o","a","t">>, <<"f","l","o","a","t","3","2">>>>,
    <<<<"d","o","u","b","l","e">>, <<"f","l","o","a","t","6","4">>>>,
    <<<<"d","e","c","i","m","a","l">>, <<"f","l","o","a","t","6","4">>>>,
    <<<<"d","a","t","e","T","i","m","e">>, <<"s","t","r","i","n","g">>>>,
    <<<<"d","a","t","e">>, <<"s","t","r","i","n","g">>>>,
    <<<<"t","i","m","e">>, <<"s","t","r","i","n","g">>>>,
    <<<<"b","a","s","e","6","4","B","i","n","a","r","y">>, <<"[","]","b","y","t","e">>>>,
    <<<<"h","e","x","B","i","n","a","r","y">>, <<"[","]","b","y","t","e">>>>>>

\* pkg/generator mapXSDTypeToGo
mapXSDTypeToGo(xsdType) ==
  LET local == StripPrefix(xsdType) IN
  IF MapHas(typeMapGo, local) THEN MapGet(typeMapGo, local) ELSE toPascalCase(local)

typeMapOpenAPI ==
  <<<<<<"s","t","r","i","n","g">>, [Type |-> "string", Format |-> ""]>>,
    <<<<"i","n","t">>, [Type |-> "integer", Format |-> "int32"]>>,
    <<<<"i","n","t","e","g","e","r">>, [Type |-> "integer", Format |-> "int32"]>>,
    <<<<"l","o","n","g">>, [Type |-> "integer", Format |-> "int64"]>>,
    <<<<"s","h","o","r","t">>, [Type |-> "integer", Format |-> "int32"]>>,
    <<<<"b","o","o","l","e","a","n">>, [Type |-> "boolean", Format |-> ""]>>,
    <<<<"f","l","o","a","t">>, [Type |-> "number", Format |-> "float"]>>,
    <<<<"d","o","u","b","l","e">>, [Type |-> "number", Format |-> "double"]>>,
    <<<<"d","e","c","i","m","a","l">>, [Type |-> "number", Format |-> ""]>>,
    <<<<"d","a","t","e","T","i","m","e">>, [Type |-> "string", Format |-> "date-time"]>>,
    <<<<"d","a","t","e">>, [Type |-> "string", Format |-> "date"]>>,
    <<<<"t","i","m","e">>, [Type |-> "string", Format |-> "time"]>>>>

\* exporter xsdTypeToOpenAPISchema
xsdTypeToOpenAPISchema(xsdType) ==
  LET local == StripPrefix(xsdType) IN
  IF MapHas(typeMapOpenAPI, local) THEN MapGet(typeMapOpenAPI, local)
  ELSE [Type |-> "string", Format |-> ""]

\* pkg/typescript openAPITypeToTS, for a schema without $ref, items or properties
openAPITypeToTS(schema) ==
  CASE schema.Type = "string" -> "string"
    [] schema.Type \in {"integer", "number"} -> "number"
    [] schema.Type = "boolean" -> "boolean"
    [] schema.Type = "array" -> "any[]"
    [] schema.Type = "object" -> "Record<string, any>"
    [] OTHER -> "any"

GetFieldTypeNoArrayGuard(e) ==
  LET base == mapXSDTypeToGo(e.Type)
      arr == IF e.MaxOccurs = "unbounded" \/ (e.MaxOccurs # "" /\ e.MaxOccurs # "1")
             THEN <<"[","]">> \o base ELSE base
      opt == IF e.MinOccurs = "0" /\ ~Contains(arr, <<"*">>)
             THEN <<"*">> \o arr ELSE arr
  IN IF e.Nillable /\ ~HasPrefix(opt, <<"*">>) /\ ~HasPrefix(opt, <<"[","]">>)
     THEN <<"*">> \o opt ELSE opt

\* ComplexTypeGenerator.getFieldType
getFieldType(e) ==
  LET base == mapXSDTypeToGo(e.Type)
      arr == IF e.MaxOccurs = "unbounded" \/ (e.MaxOccurs # "" /\ e.MaxOccurs # "1")
             THEN <<"[","]">> \o base ELSE base
      opt == IF e.MinOccurs = "0" /\ ~HasPrefix(arr, <<"[","]">>) /\ ~Contains(arr, <<"*">>)
             THEN <<"*">> \o arr ELSE arr
  IN IF e.Nillable /\ ~HasPrefix(opt, <<"*">>) /\ ~HasPrefix(opt, <<"[","]">>)
     THEN <<"*">> \o opt ELSE opt

(***************************************************************************)
(* Normalizer calls                                                        *)
(***************************************************************************)
\* the characters names are built from; the last one is U+00E9 in UTF-8
NameSymbols ==
  {<<"a">>, <<"B">>, <<"_">>, <<"-">>, <<".">>, <<" ">>, <<":">>, <<"\t">>, <<"xC3","xA9">>}

RECURSIVE NamesUpTo(_)
NamesUpTo(n) ==
  IF n = 0 THEN {<<>>}
  ELSE LET shorter == NamesUpTo(n - 1) IN
       shorter \cup {p \o c : p \in shorter, c \in NameSymbols}

RawNames == NamesUpTo(MaxNameLen)

NormIdle ==
  /\ rawName = <<>>
  /\ goName = [first |-> <<>>, second |-> <<>>]
  /\ tsName = [first |-> <<>>, second |-> <<>>]
  /\ normDone = {}

NormInit ==
  /\ rawName \in RawNames
  /\ goName = [first |-> <<>>, second |-> <<>>]
  /\ tsName = [first |-> <<>>, second |-> <<>>]
  /\ normDone = {}

\* pkg/generator: structName := toPascalCase(msg.Name)
CallToPascalCase ==
  /\ "go" \notin normDone
  /\ goName' = [goName EXCEPT !.first = toPascalCase(rawName)]
  /\ normDone' = normDone \cup {"go"}
  /\ UNCHANGED <<rawName, tsName, projVars, secVars, codecVars, genVars, serveVars, pipeVars, logVars, emitVars, infoVars>>

\* pkg/generator: the exported form is normalized again
CallToPascalCaseAgain ==
  /\ "go" \in normDone
  /\ "go2" \notin normDone
  /\ goName' = [goName EXCEPT !.second = toPascalCase(goName.first)]
  /\ normDone' = normDone \cup {"go2"}
  /\ UNCHANGED <<rawName, tsName, projVars, secVars, codecVars, genVars, serveVars, pipeVars, logVars, emitVars, infoVars>>

\* pkg/typescript: typeName := toPascalCase(op.OperationID)
CallToPascalCaseTS ==
  /\ "ts" \notin normDone
  /\ tsName' = [tsName EXCEPT !.first = toPascalCaseTS(rawName)]
  /\ normDone' = normDone \cup {"ts"}
  /\ UNCHANGED <<rawName, goName, projVars, secVars, codecVars, genVars, serveVars, pipeVars, logVars, emitVars, infoVars>>

\* pkg/typescript: the exported form is normalized again
CallToPascalCaseTSAgain ==
  /\ "ts" \in normDone
  /\ "ts2" \notin normDone
  /\ tsName' = [tsName EXCEPT !.second = toPascalCaseTS(tsName.first)]
  /\ normDone' = normDone \cup {"ts2"}
  /\ UNCHANGED <<rawName, goName, projVars, secVars, codecVars, genVars, serveVars, pipeVars, logVars, emitVars, infoVars>>

NormNext ==
  \/ CallToPascalCase
  \/ CallToPascalCaseAgain
  \/ CallToPascalCaseTS
  \/ CallToPascalCaseTSAgain

(***************************************************************************)
(* Projector calls                                                         *)
(***************************************************************************)
Digits == <<"0","1","2","3","4","5","6","7","8","9">>

Numeral(n) == Digits[n + 1]

MaxOccursValues == {"", "unbounded"} \cup {Numeral(n) : n \in 0..MaxOccursNum}

MinOccursValues == {"", "0", "1"}

PrimitiveTable ==
  {<<"s","t","r","i","n","g">>,
   <<"i","n","t">>,
   <<"i","n","t","e","g","e","r">>,
   <<"l","o","n","g">>,
   <<"s","h","o","r","t">>,
   <<"b","y","t","e">>,
   <<"b","o","o","l","e","a","n">>,
   <<"f","l","o","a","t">>,
   <<"d","o","u","b","l","e">>,
   <<"d","e","c","i","m","a","l">>,
   <<"d","a","t","e","T","i","m","e">>,
   <<"d","a","t","e">>,
   <<"t","i","m","e">>,
   <<"b","a","s","e","6","4","B","i","n","a","r","y">>,
   <<"h","e","x","B","i","n","a","r","y">>}

\* references to complex types of the document and to a type it does not declare
ComplexTypeRefs ==
  {<<"t","n","s",":","I","t","e","m">>,
   <<"m","y","_","i","t","e","m">>,
   <<"a","n","y","T","y","p","e">>,
   <<>>}

TypeRefs ==
  PrimitiveTable \cup {<<"x","s","d",":">> \o p : p \in PrimitiveTable} \cup ComplexTypeRefs

Elements ==
  [Type : TypeRefs, MinOccurs : MinOccursValues, MaxOccurs : MaxOccursValues, Nillable : BOOLEAN]

ProjIdle ==
  /\ elem = [Type |-> <<>>, MinOccurs |-> "", MaxOccurs |-> "", Nillable |-> FALSE]
  /\ goType = <<>>
  /\ oaSchema = [Type |-> "", Format |-> ""]
  /\ tsType = ""
  /\ fieldType = <<>>
  /\ projDone = {}

ProjInit ==
  /\ elem \in Elements
  /\ goType = <<>>
  /\ oaSchema = [Type |-> "", Format |-> ""]
  /\ tsType = ""
  /\ fieldType = <<>>
  /\ projDone = {}

\* fieldType := mapXSDTypeToGo(part.Type)
CallMapXSDTypeToGo ==
  /\ goType' = mapXSDTypeToGo(elem.Type)
  /\ projDone' = projDone \cup {"go"}
  /\ UNCHANGED <<elem, oaSchema, tsType, fieldType, normVars, secVars, codecVars, genVars, serveVars, pipeVars, logVars, emitVars, infoVars>>

\* schema.Properties[part.Name] = xsdTypeToOpenAPISchema(part.Type)
CallXsdTypeToOpenAPISchema ==
  /\ oaSchema' = xsdTypeToOpenAPISchema(elem.Type)
  /\ projDone' = projDone \cup {"oa"}
  /\ UNCHANGED <<elem, goType, tsType, fieldType, normVars, secVars, codecVars, genVars, serveVars, pipeVars, logVars, emitVars, infoVars>>

\* tsType := g.openAPITypeToTS(propSchema), on the schema the exporter produced
CallOpenAPITypeToTS ==
  /\ "oa" \in projDone
  /\ tsType' = openAPITypeToTS(oaSchema)
  /\ projDone' = projDone \cup {"ts"}
  /\ UNCHANGED <<elem, goType, oaSchema, fieldType, normVars, secVars, codecVars, genVars, serveVars, pipeVars, logVars, emitVars, infoVars>>

\* fieldType := ctg.getFieldType(elem)
CallGetFieldType ==
  /\ fieldType' = getFieldType(elem)
  /\ projDone' = projDone \cup {"field"}
  /\ UNCHANGED <<elem, goType, oaSchema, tsType, normVars, secVars, codecVars, genVars, serveVars, pipeVars, logVars, emitVars, infoVars>>

ProjNext ==
  \/ CallMapXSDTypeToGo
  \/ CallXsdTypeToOpenAPISchema
  \/ CallOpenAPITypeToTS
  \/ CallGetFieldType

(***************************************************************************)
(* WS-Security header builder (pkg/security)                               *)
(***************************************************************************)
\* a nil pointer
Nil == [nil |-> TRUE]

TicksPerSecond == 2

\* the instant a run starts at: 23:57:58 of day 1
ClockStart == ((23 * 60 + 57) * 60 + 58) * TicksPerSecond

MaxClock == ClockStart + MaxAdvance

Minute == 60 * TicksPerSecond

TwoDigits(n) == <<Digits[(n \div 10) + 1], Digits[(n % 10) + 1]>>

\* t.Format(time.RFC3339) of a UTC instant, day of month onwards: "ddThh:mm:ssZ"
FormatRFC3339(t) ==
  LET secs == t \div TicksPerSecond IN
  TwoDigits(1 + (secs \div 86400)) \o <<"T">> \o TwoDigits((secs \div 3600) % 24) \o <<":">>
    \o TwoDigits((secs \div 60) % 60) \o <<":">> \o TwoDigits(secs % 60) \o <<"Z">>

CreateTimestampFiveSeconds(now) ==
  [Created |-> FormatRFC3339(now), Expires |-> FormatRFC3339(now + 5 * TicksPerSecond)]

\* createTimestamp, with now the instant time.Now() returned
createTimestamp(now) ==
  [Created |-> FormatRFC3339(now), Expires |-> FormatRFC3339(now + 5 * Minute)]

NonceLen == 16

\* what rand.Read may leave in the nonce (all zero when it fails)
Nonces ==
  {[i \in 1..NonceLen |-> "x00"],
   [i \in 1..NonceLen |-> IF i % 2 = 0 THEN "x5A" ELSE "xC3"]}

\* crypto/sha1 as a collision-free function of the bytes written
Sha1(bytes) == <<"sha1", bytes>>

\* base64.StdEncoding.EncodeToString and its inverse
Base64(bytes) == <<"base64", bytes>>

Base64Decode(text) == text[2]

CreatePasswordDigestPasswordFirst(nonce, created, password) ==
  Base64(Sha1(password \o created \o nonce))

\* createPasswordDigest
createPasswordDigest(nonce, created, password) ==
  Base64(Sha1(nonce \o created \o password))

PasswordDigestURI ==
  "http://docs.oasis-open.org/wss/2004/01/oasis-200401-wss-username-token-profile-1.0#PasswordDigest"

PasswordTextURI ==
  "http://docs.oasis-open.org/wss/2004/01/oasis-200401-wss-username-token-profile-1.0#PasswordText"

Base64BinaryURI ==
  "http://docs.oasis-open.org/wss/2004/01/oasis-200401-wss-soap-message-security-1.0#Base64Binary"

WSSENamespace ==
  "http://docs.oasis-open.org/wss/2004/01/oasis-200401-wss-wssecurity-secext-1.0.xsd"

WSUNamespace ==
  "http://docs.oasis-open.org/wss/2004/01/oasis-200401-wss-wssecurity-utility-1.0.xsd"

\* createUsernameToken, with nonce what generateNonce returned and now the
\* instant its own time.Now() returned
createUsernameToken(ws, nonce, now) ==
  IF ws.UseDigest
  THEN LET created == FormatRFC3339(now) IN
       [Username |-> ws.Username,
        Password |-> [Type |-> PasswordDigestURI,
                      Value |-> createPasswordDigest(nonce, created, ws.Password)],
        Nonce |-> [EncodingType |-> Base64BinaryURI, Value |-> Base64(nonce)],
        Created |-> created]
  ELSE [Username |-> ws.Username,
        Password |-> [Type |-> PasswordTextURI, Value |-> ws.Password],
        Nonce |-> Nil,
        Created |-> <<>>]

\* NewSecurityHeader: t1 is the clock reading of createTimestamp, t2 the
\* later one of createUsernameToken
NewSecurityHeader(ws, t1, nonce, t2) ==
  IF ws = Nil THEN Nil
  ELSE [WSSE |-> WSSENamespace,
        WSU |-> WSUNamespace,
        Timestamp |-> createTimestamp(t1),
        UsernameToken |-> IF ws.Username # <<>> THEN createUsernameToken(ws, nonce, t2) ELSE Nil]

Usernames == {<<>>, <<"b","o","b">>, <<"a",":","1">>}

Passwords == {<<"p","w">>, <<"s","3">>}

Credentials == [Username : Usernames, Password : Passwords, UseDigest : BOOLEAN]

\* the clock readings <<t1, t2>> and the nonce one NewSecurityHeader(ws) call
\* may see when the clock stands at now: createTimestamp reads the clock,
\* createUsernameToken reads it again and draws a nonce in digest mode only
SecurityReadings(ws, now) ==
  IF ws = Nil THEN {<<now, CHOOSE n \in Nonces : TRUE, now>>}
  ELSE IF ws.Username # <<>> /\ ws.UseDigest
  THEN {r \in (now..MaxClock) \X Nonces \X (now..MaxClock) : r[1] <= r[3]}
  ELSE {<<t1, CHOOSE n \in Nonces : TRUE, t1>> : t1 \in now..MaxClock}

SecIdle ==
  /\ clock = ClockStart
  /\ secArg = Nil
  /\ secHeader = Nil

SecInit == SecIdle

\* header := security.NewSecurityHeader(ws)
CallNewSecurityHeader ==
  /\ \E ws \in Credentials \cup {Nil} :
       \E r \in SecurityReadings(ws, clock) :
         /\ secArg' = ws
         /\ secHeader' = NewSecurityHeader(ws, r[1], r[2], r[3])
         /\ clock' = r[3]
  /\ UNCHANGED <<projVars, normVars, codecVars, genVars, serveVars, pipeVars, logVars, emitVars, infoVars>>

SecNext == CallNewSecurityHeader

(***************************************************************************)
(* XML on the wire                                                         *)
(***************************************************************************)
SOAP11Namespace == "http://schemas.xmlsoap.org/soap/envelope/"

SOAP12Namespace == "http://www.w3.org/2003/05/soap-envelope"

\* the text of an element name as a struct tag or a document spells it
Tag(prefix, local) == IF prefix = "" THEN <<local>> ELSE <<prefix, ":", local>>

\* An XML document: wf tells whether it is well-formed XML; root is the root
\* element, ns the namespace its prefix is bound to; header is the
\* wsse:Security header in the Header child (Nil without one); body is the
\* content of the Body child, a sequence of elements
\*   [prefix, local, kids], kids a sequence of [k |-> name, v |-> text].
Doc(prefix, local, ns, header, body) ==
  [wf |-> TRUE, root |-> [prefix |-> prefix, local |-> local, ns |-> ns],
   header |-> header, body |-> body]

Fault11 ==
  [prefix |-> "soap", local |-> "Fault",
   kids |-> <<[k |-> "faultcode", v |-> "soap:Server"], [k |-> "faultstring", v |-> "boom"]>>]

Fault12 ==
  [prefix |-> "env", local |-> "Fault",
   kids |-> <<[k |-> "Code", v |-> "env:Receiver"], [k |-> "Reason", v |-> "boom"]>>]

AddResponse ==
  [prefix |-> "", local |-> "AddResponse", kids |-> <<[k |-> "AddResult", v |-> "3"]>>]

\* the documents an upstream endpoint may answer a request document with:
\* the request itself, a result or a fault in either envelope version, a
\* body-less document, and text that is not XML
UpstreamDocs(requestDoc) ==
  {requestDoc,
   Doc("soap", "Envelope", SOAP11Namespace, Nil, <<AddResponse>>),
   Doc("env", "Envelope", SOAP12Namespace, Nil, <<AddResponse>>),
   Doc("soap", "Envelope", SOAP11Namespace, Nil, <<Fault11>>),
   Doc("env", "Envelope", SOAP12Namespace, Nil, <<Fault12>>),
   Doc("", "html", "", Nil, <<>>),
   [Doc("", "html", "", Nil, <<>>) EXCEPT !.wf = FALSE]}

HTTPStatuses == {200, 202, 500}

\* what client.Do and io.ReadAll may give for a request
UpstreamOutcomes(requestDoc) ==
  {[kind |-> "transport-error", status |-> 0, doc |-> Nil]}
    \cup [kind : {"read-error"}, status : {200}, doc : {Nil}]
    \cup [kind : {"reply"}, status : HTTPStatuses, doc : UpstreamDocs(requestDoc)]

HasFault(doc) == \E i \in 1..Len(doc.body) : doc.body[i].local = "Fault"

\* URLs http.NewRequest cannot parse
InvalidURLs == {"http://bad host/"}

\* textproto.CanonicalMIMEHeaderKey, as http.Header.Set applies it
CanonicalMIMEHeaderKey(k) ==
  CASE k = "SOAPAction" -> "Soapaction"
    [] k = "content-type" -> "Content-Type"
    [] OTHER -> k

\* fmt.Sprintf("\"%s\"", soapAction)
Quoted(text) == <<"\"", text, "\"">>

(***************************************************************************)
(* The generated client (pkg/generator/client_wssecurity.go)               *)
(***************************************************************************)
\* the endpoint generateClientWithSecurity compiled into NewClient
GeneratedEndpoint == "http://example.org/calculator.asmx"

\* the NewClient generateClientWithSecurity writes for the endpoint it found;
\* HTTPClient is &http.Client{}, Headers an empty map
GeneratedNewClient(endpoint, url) ==
  [URL |-> IF url = "" THEN endpoint ELSE url,
   HTTPClient |-> [Timeout |-> 0],
   Headers |-> <<>>,
   Security |-> Nil,
   SOAPVersion |-> "1.1"]

NewClient(url) == GeneratedNewClient(GeneratedEndpoint, url)

\* a SetDigestAuth that replaces the credentials and keeps the mode
SetDigestAuthKeepingMode(c, username, password) ==
  [c EXCEPT !.Security = [Username |-> username, Password |-> password,
                          UseDigest |-> IF c.Security = Nil THEN FALSE
                                        ELSE c.Security.UseDigest]]

SetBasicAuth(c, username, password) ==
  [c EXCEPT !.Security = [Username |-> username, Password |-> password, UseDigest |-> FALSE]]

SetDigestAuth(c, username, password) ==
  [c EXCEPT !.Security = [Username |-> username, Password |-> password, UseDigest |-> TRUE]]

SetSOAPVersion(c, version) == [c EXCEPT !.SOAPVersion = version]

SetHeader(c, key, value) ==
  [c EXCEPT !.Headers = [k \in DOMAIN c.Headers \cup {key} |->
                           IF k = key THEN value ELSE c.Headers[k]]]

\* the struct tags of SOAPEnvelope and of SOAP12Envelope
SOAPEnvelopeTags == [XMLName |-> Tag("soap", "Envelope"), prefix |-> "soap", local |-> "Envelope"]

SOAP12EnvelopeTags == [XMLName |-> Tag("env", "Envelope"), prefix |-> "env", local |-> "Envelope"]

\* buildSOAP11Envelope, with hdr what security.NewSecurityHeader(c.Security) returned
buildSOAP11Envelope(c, request, hdr) ==
  [tags |-> SOAPEnvelopeTags,
   EnvNamespace |-> SOAP11Namespace,
   Header |-> IF c.Security # Nil THEN [Security |-> hdr] ELSE Nil,
   Body |-> [Content |-> request]]

\* buildSOAP12Envelope
buildSOAP12Envelope(c, request, hdr) ==
  [tags |-> SOAP12EnvelopeTags,
   EnvNamespace |-> SOAP12Namespace,
   Header |-> IF c.Security # Nil THEN [Security |-> hdr] ELSE Nil,
   Body |-> [Content |-> request]]

\* the request values handed to Call: a generated request struct, and a
\* value encoding/xml cannot marshal (a map)
AddRequest ==
  [marshals |-> TRUE, local |-> "Add", kids |-> <<[k |-> "intA", v |-> "1"], [k |-> "intB", v |-> "2"]>>]

MapRequest == [marshals |-> FALSE, local |-> "", kids |-> <<>>]

Requests == {AddRequest, MapRequest}

\* xml.MarshalIndent(envelope): the root is named by the XMLName tag, its
\* prefix bound by the xmlns attribute; text is escaped
MarshalIndent(envelope) ==
  Doc(envelope.tags.prefix, envelope.tags.local, envelope.EnvNamespace,
      IF envelope.Header = Nil THEN Nil ELSE envelope.Header.Security,
      <<[prefix |-> "", local |-> envelope.Body.Content.local, kids |-> envelope.Body.Content.kids]>>)

\* xml.Unmarshal(respData, &envelope) for an envelope struct with these tags:
\* the decoder compares the name in the XMLName tag with the local name of
\* the root element; the response value behind the interface-typed innerxml
\* field is never written.  "" stands for a nil error.
Unmarshal(doc, tags) ==
  IF ~doc.wf THEN "XML syntax error"
  ELSE IF tags.XMLName # <<doc.root.local>> THEN "expected element type"
  ELSE ""

NoCall ==
  [soapAction |-> "", request |-> Nil, built |-> "", envelope |-> Nil, sent |-> FALSE,
   header |-> <<>>, outcome |-> Nil, attempts |-> <<>>, err |-> "", response |-> Nil,
   returned |-> FALSE]

\* the HTTP header of the request Call sends
CallHeader(c, soapAction) ==
  LET contentType == IF c.SOAPVersion = "1.2" THEN "application/soap+xml; charset=utf-8"
                     ELSE "text/xml; charset=utf-8"
      std == IF c.SOAPVersion = "1.1"
             THEN ("Content-Type" :> <<contentType>>) @@ ("Soapaction" :> Quoted(soapAction))
             ELSE ("Content-Type" :> <<contentType>>)
      custom == {CanonicalMIMEHeaderKey(k) : k \in DOMAIN c.Headers}
  IN [k \in DOMAIN std \cup custom |->
        IF k \in custom
        THEN <<c.Headers[CHOOSE raw \in DOMAIN c.Headers : CanonicalMIMEHeaderKey(raw) = k]>>
        ELSE std[k]]

\* the envelope Call builds
CallEnvelope(c, request, hdr) ==
  IF c.SOAPVersion = "1.2" THEN buildSOAP12Envelope(c, request, hdr)
  ELSE buildSOAP11Envelope(c, request, hdr)

\* whether Call gets as far as c.HTTPClient.Do
CallSends(c, request) == request.marshals /\ c.URL \notin InvalidURLs

\* Client.Call, with hdr the security header built and outcome what the
\* transport gave; attempts lists the envelope structs the reply was
\* unmarshalled into, in order (SOAPEnvelope is "1.1", SOAP12Envelope "1.2")
Call(c, soapAction, request, hdr, outcome) ==
  LET envelope == CallEnvelope(c, request, hdr)
      begun == [NoCall EXCEPT !.soapAction = soapAction, !.request = request,
                              !.built = envelope.tags.prefix, !.returned = TRUE]
  IN IF ~request.marshals THEN [begun EXCEPT !.err = "failed to marshal request"]
     ELSE LET doc == MarshalIndent(envelope)
              made == [begun EXCEPT !.envelope = doc] IN
       IF c.URL \in InvalidURLs THEN [made EXCEPT !.err = "failed to create request"]
       ELSE LET done == [made EXCEPT !.sent = TRUE, !.header = CallHeader(c, soapAction),
                                     !.outcome = outcome] IN
         IF outcome.kind = "transport-error" THEN [done EXCEPT !.err = "failed to execute request"]
         ELSE IF outcome.kind = "read-error" THEN [done EXCEPT !.err = "failed to read response"]
         ELSE IF outcome.status # 200 /\ outcome.status # 202
         THEN [done EXCEPT !.err = "SOAP request failed with status"]
         ELSE IF Unmarshal(outcome.doc, SOAPEnvelopeTags) = ""
         THEN [done EXCEPT !.attempts = <<"1.1">>]
         ELSE IF Unmarshal(outcome.doc, SOAP12EnvelopeTags) = ""
         THEN [done EXCEPT !.attempts = <<"1.1", "1.2">>]
         ELSE [done EXCEPT !.attempts = <<"1.1", "1.2">>,
                           !.err = "failed to unmarshal response"]

(***************************************************************************)
(* The REST bridge (pkg/server/server.go)                                  *)
(***************************************************************************)
\* the parsed WSDL documents the bridge is started with
CalculatorDefinitions ==
  [TargetNamespace |-> "http://tempuri.org/calc",
   Services |-> <<[Ports |-> <<[Address |-> "http://backend/calc"]>>]>>,
   PortTypes |-> <<[Operations |-> <<[Name |-> "Add"], [Name |-> "Ping"]>>]>>,
   Bindings |-> <<[Operations |-> <<[Name |-> "Add", SoapAction |-> "urn:Add"]>>],
                  [Operations |-> <<[Name |-> "Add", SoapAction |-> "urn:Add12"]>>]>>]

BareDefinitions ==
  [TargetNamespace |-> "",
   Services |-> <<>>,
   PortTypes |-> <<[Operations |-> <<[Name |-> "Add"]>>]>>,
   Bindings |-> <<[Operations |-> <<[Name |-> "Add", SoapAction |-> "urn:Add"]>>]>>]

DefinitionsSet == {CalculatorDefinitions, BareDefinitions}

NewServer(def) ==
  [definitions |-> def,
   soapEndpoint |-> IF Len(def.Services) > 0 /\ Len(def.Services[1].Ports) > 0
                    THEN def.Services[1].Ports[1].Address ELSE "",
   soapVersion |-> "1.1"]

SetSOAPEndpoint(s, endpoint) == [s EXCEPT !.soapEndpoint = endpoint]

ServerSetSOAPVersion(s, version) == [s EXCEPT !.soapVersion = version]

\* JSON values of a decoded request body
JSONString(text) == [kind |-> "string", text |-> text]

JSONNull == [kind |-> "null", text |-> ""]

\* the request bodies posted to the bridge: text that is not a JSON object,
\* and JSON objects (decoded into map[string]interface{})
InvalidBody == [valid |-> FALSE, params |-> <<>>]

\* a value that closes the element of key intA, opens an element of its
\* own and reopens intA
ClosingText == "1</intA><admin>1</admin><intA>"

ParamMaps ==
  {<<>>,
   [intA |-> JSONString("1")],
   [intA |-> JSONString("1"), intB |-> JSONString("2")],
   [intA |-> JSONNull],
   [intA |-> JSONString("a<b")],
   [intA |-> JSONString(ClosingText)]}

InboundBodies == {InvalidBody} \cup [valid : {TRUE}, params : ParamMaps]

\* fmt's %v verb
FormatV(v) == IF v.kind = "null" THEN "<nil>" ELSE v.text

\* texts that hold XML markup characters
MarkupTexts == {"<nil>", "a<b"}

\* the elements an XML parser reads from the text "<k>v</k>" of a
\* well-formed envelope
ElementsRead(kid) ==
  IF kid.k = "intA" /\ kid.v = ClosingText
  THEN <<[k |-> "intA", v |-> "1"], [k |-> "admin", v |-> "1"], [k |-> "intA", v |-> ""]>>
  ELSE <<kid>>

RECURSIVE ChildrenRead(_)
\* the children an XML parser reads inside the operation element
ChildrenRead(kids) ==
  IF kids = <<>> THEN <<>> ELSE ElementsRead(Head(kids)) \o ChildrenRead(Tail(kids))

\* the orders a range over a Go map may visit its keys in
RECURSIVE Orders(_)
Orders(keys) ==
  IF keys = {} THEN {<<>>}
  ELSE UNION {{<<k>> \o rest : rest \in Orders(keys \ {k})} : k \in keys}

BuildSOAPEnvelopeEnvPrefix(s, operation, params, order) ==
  LET paramsXML == [i \in 1..Len(order) |-> [k |-> order[i], v |-> FormatV(params[order[i]])]]
      targetNS == IF s.definitions.TargetNamespace = "" THEN "http://tempuri.org/"
                  ELSE s.definitions.TargetNamespace
      root == IF s.soapVersion = "1.2"
              THEN [prefix |-> "env", local |-> "Envelope", ns |-> SOAP12Namespace]
              ELSE [prefix |-> "soap", local |-> "Envelope", ns |-> SOAP11Namespace]
  IN [wf |-> \A i \in 1..Len(paramsXML) : paramsXML[i].v \notin MarkupTexts,
      root |-> root,
      header |-> Nil,
      tns |-> targetNS,
      body |-> <<[prefix |-> "tns", local |-> operation, kids |-> paramsXML]>>]

\* Server.buildSOAPEnvelope, with order the order the range over params took:
\* the text is assembled with Sprintf, nothing is escaped
buildSOAPEnvelope(s, operation, params, order) ==
  LET paramsXML == [i \in 1..Len(order) |-> [k |-> order[i], v |-> FormatV(params[order[i]])]]
      targetNS == IF s.definitions.TargetNamespace = "" THEN "http://tempuri.org/"
                  ELSE s.definitions.TargetNamespace
      root == IF s.soapVersion = "1.2"
              THEN [prefix |-> "soap12", local |-> "Envelope", ns |-> SOAP12Namespace]
              ELSE [prefix |-> "soap", local |-> "Envelope", ns |-> SOAP11Namespace]
  IN [wf |-> \A i \in 1..Len(paramsXML) : paramsXML[i].v \notin MarkupTexts,
      root |-> root,
      header |-> Nil,
      tns |-> targetNS,
      body |-> <<[prefix |-> "tns", local |-> operation, kids |-> paramsXML]>>]

\* Server.parseSOAPResponse: the anonymous envelope struct has no XMLName, so
\* any root element is accepted; the inner XML of Body is returned as it is
parseSOAPResponse(doc) ==
  IF ~doc.wf THEN [err |-> "failed to unmarshal SOAP envelope", result |-> Nil]
  ELSE [err |-> "",
        result |-> IF doc.body # <<>> THEN [xml |-> doc.body, raw |-> doc.body] ELSE <<>>]

\* the HTTP header of the request callSOAP sends
ServerCallHeader(s, soapAction) ==
  IF s.soapVersion = "1.2"
  THEN ("Content-Type" :> <<"application/soap+xml; charset=utf-8">>)
  ELSE IF soapAction # ""
  THEN ("Content-Type" :> <<"text/xml; charset=utf-8">>) @@ ("Soapaction" :> Quoted(soapAction))
  ELSE ("Content-Type" :> <<"text/xml; charset=utf-8">>)

NoInbound ==
  [operation |-> "", body |-> Nil, soapAction |-> "", sent |-> FALSE, envelope |-> Nil,
   header |-> <<>>, outcome |-> Nil, err |-> "", result |-> Nil,
   status |-> 0, answer |-> Nil]

\* whether callSOAP gets as far as client.Do
ServerSends(s) == s.soapEndpoint # "" /\ s.soapEndpoint \notin InvalidURLs

\* Server.callSOAP, with order the map order taken and outcome what the
\* transport gave: the upstream HTTP status is not looked at
callSOAP(s, operation, soapAction, requestParams, order, outcome) ==
  LET begun == [NoInbound EXCEPT !.operation = operation, !.soapAction = soapAction]
  IN IF s.soapEndpoint = "" THEN [begun EXCEPT !.err = "SOAP endpoint not configured"]
     ELSE LET xmlData == buildSOAPEnvelope(s, operation, requestParams, order)
              made == [begun EXCEPT !.envelope = xmlData] IN
       IF s.soapEndpoint \in InvalidURLs THEN [made EXCEPT !.err = "failed to create request"]
       ELSE LET done == [made EXCEPT !.sent = TRUE, !.header = ServerCallHeader(s, soapAction),
                                     !.outcome = outcome] IN
         IF outcome.kind = "transport-error" THEN [done EXCEPT !.err = "SOAP call failed"]
         ELSE IF outcome.kind = "read-error" THEN [done EXCEPT !.err = "failed to read response"]
         ELSE LET parsed == parseSOAPResponse(outcome.doc) IN
           IF parsed.err # "" THEN [done EXCEPT !.err = "failed to parse SOAP response"]
           ELSE [done EXCEPT !.result = parsed.result]

\* the SoapAction the handler looks up: every binding is scanned, the break
\* leaves the inner loop only
HandlerSoapAction(def, name) ==
  LET matching == {b \in 1..Len(def.Bindings) :
                     \E i \in 1..Len(def.Bindings[b].Operations) :
                       def.Bindings[b].Operations[i].Name = name}
  IN IF matching = {} THEN ""
     ELSE LET b == CHOOSE x \in matching : \A y \in matching : y <= x
              ops == def.Bindings[b].Operations
              i == CHOOSE x \in 1..Len(ops) :
                     ops[x].Name = name /\ \A y \in 1..(x - 1) : ops[y].Name # name
          IN ops[i].SoapAction

\* the handler createOperationHandler(op) returns, run on one request
createOperationHandler(s, op, body, order, outcome) ==
  IF ~body.valid
  THEN [NoInbound EXCEPT !.operation = op.Name, !.body = body, !.status = 400,
                         !.answer = [error |-> "Invalid request body"]]
  ELSE LET soapAction == HandlerSoapAction(s.definitions, op.Name)
           r == [callSOAP(s, op.Name, soapAction, body.params, order, outcome)
                   EXCEPT !.body = body]
       IN IF r.err # ""
          THEN [r EXCEPT !.status = 500,
                         !.answer = [error |-> "SOAP call failed", operation |-> op.Name,
                                     details |-> r.err]]
          ELSE [r EXCEPT !.status = 200,
                         !.answer = [operation |-> op.Name, status |-> "success",
                                     request |-> body.params, response |-> r.result]]

\* the operations setupRoutes registers a handler for
RoutedOperations(def) ==
  UNION {{def.PortTypes[p].Operations[i] : i \in 1..Len(def.PortTypes[p].Operations)} :
           p \in 1..Len(def.PortTypes)}

(***************************************************************************)
(* Calls on the client and requests to the bridge                         *)
(***************************************************************************)
SOAPVersions == {"1.1", "1.2", "1.0"}

ClientURLs == {"", "http://other/soap"} \cup InvalidURLs

ClientUsernames == {<<>>, <<"b","o","b">>}

ClientPasswords == {<<"p","w">>}

HeaderKeys == {"SOAPAction", "X-Trace"}

HeaderValues == {"urn:custom"}

SoapActions == {"urn:Add"}

Endpoints == {"", "http://backend/calc"} \cup InvalidURLs

\* no setter has been called
NoSetters == [last |-> "", auth |-> Nil, version |-> Nil]

LogIdle == setterLog = NoSetters

CodecIdle ==
  /\ client = Nil
  /\ call = NoCall
  /\ server = Nil
  /\ inbound = NoInbound

\* the client and the bridge are exercised late in the run of the clock
CodecClockStart == MaxClock - 1

CodecInit ==
  /\ clock = CodecClockStart
  /\ secArg = Nil
  /\ secHeader = Nil
  /\ call = NoCall
  /\ inbound = NoInbound
  /\ \/ client \in {NewClient(url) : url \in ClientURLs} /\ server = Nil
     \/ client = Nil /\ server \in {NewServer(def) : def \in DefinitionsSet}

ClientSetBasicAuth ==
  /\ client # Nil
  /\ \E u \in ClientUsernames, pw \in ClientPasswords :
       /\ client' = SetBasicAuth(client, u, pw)
       /\ setterLog' = [setterLog EXCEPT !.last = "SetBasicAuth",
                                          !.auth = [setter |-> "SetBasicAuth", username |-> u, password |-> pw]]
  /\ call' = NoCall
  /\ UNCHANGED <<server, inbound, projVars, normVars, secVars, genVars, serveVars, pipeVars, emitVars, infoVars>>

ClientSetDigestAuth ==
  /\ client # Nil
  /\ \E u \in ClientUsernames, pw \in ClientPasswords :
       /\ client' = SetDigestAuth(client, u, pw)
       /\ setterLog' = [setterLog EXCEPT !.last = "SetDigestAuth",
                                          !.auth = [setter |-> "SetDigestAuth", username |-> u, password |-> pw]]
  /\ call' = NoCall
  /\ UNCHANGED <<server, inbound, projVars, normVars, secVars, genVars, serveVars, pipeVars, emitVars, infoVars>>

ClientSetSOAPVersion ==
  /\ client # Nil
  /\ \E v \in SOAPVersions :
       /\ client' = SetSOAPVersion(client, v)
       /\ setterLog' = [setterLog EXCEPT !.last = "SetSOAPVersion", !.version = [value |-> v]]
  /\ call' = NoCall
  /\ UNCHANGED <<server, inbound, projVars, normVars, secVars, genVars, serveVars, pipeVars, emitVars, infoVars>>

ClientSetHeader ==
  /\ client # Nil
  /\ \E k \in HeaderKeys, v \in HeaderValues :
       /\ client' = SetHeader(client, k, v)
       /\ setterLog' = [setterLog EXCEPT !.last = "SetHeader"]
  /\ call' = NoCall
  /\ UNCHANGED <<server, inbound, projVars, normVars, secVars, genVars, serveVars, pipeVars, emitVars, infoVars>>

\* err := client.Call(soapAction, request, &response)
ClientCall ==
  /\ client # Nil
  /\ \E soapAction \in SoapActions, request \in Requests :
       \E r \in SecurityReadings(client.Security, clock) :
         LET hdr == NewSecurityHeader(client.Security, r[1], r[2], r[3])
             doc == MarshalIndent(CallEnvelope(client, request, hdr))
         IN \E outcome \in IF CallSends(client, request) THEN UpstreamOutcomes(doc) ELSE {Nil} :
              /\ call' = Call(client, soapAction, request, hdr, outcome)
              /\ clock' = r[3]
  /\ UNCHANGED <<client, server, inbound, secArg, secHeader, projVars, normVars, genVars, serveVars, pipeVars, logVars, emitVars, infoVars>>

BridgeSetSOAPEndpoint ==
  /\ server # Nil
  /\ \E e \in Endpoints : server' = SetSOAPEndpoint(server, e)
  /\ inbound' = NoInbound
  /\ UNCHANGED <<client, call, projVars, normVars, secVars, genVars, serveVars, pipeVars, logVars, emitVars, infoVars>>

BridgeSetSOAPVersion ==
  /\ server # Nil
  /\ \E v \in SOAPVersions : server' = ServerSetSOAPVersion(server, v)
  /\ inbound' = NoInbound
  /\ UNCHANGED <<client, call, projVars, normVars, secVars, genVars, serveVars, pipeVars, logVars, emitVars, infoVars>>

\* POST /api/<op> with a body
BridgeHandle ==
  /\ server # Nil
  /\ \E op \in RoutedOperations(server.definitions), body \in InboundBodies :
       \E order \in Orders(DOMAIN body.params) :
         LET doc == buildSOAPEnvelope(server, op.Name, body.params, order)
         IN \E outcome \in IF body.valid /\ ServerSends(server)
                           THEN UpstreamOutcomes(doc) ELSE {Nil} :
              inbound' = createOperationHandler(server, op, body, order, outcome)
  /\ UNCHANGED <<client, call, server, projVars, normVars, secVars, genVars, serveVars, pipeVars, logVars, emitVars, infoVars>>

CodecNext ==
  \/ ClientSetBasicAuth
  \/ ClientSetDigestAuth
  \/ ClientSetSOAPVersion
  \/ ClientSetHeader
  \/ ClientCall
  \/ BridgeSetSOAPEndpoint
  \/ BridgeSetSOAPVersion
  \/ BridgeHandle

(***************************************************************************)
(* Code generation (pkg/generator, pkg/typescript)                         *)
(***************************************************************************)
MaxRuns == 2

\* the files the steps of Generator.Generate write, in the order of the steps
GoFiles == <<"client.go", "types.go", "operators.go", "example.go">>

\* the file generateMockServer writes
MockFile == "mock_server.go"

\* the files the steps of the TypeScript Generator.Generate write
TSFiles ==
  <<"typescript/types.ts", "typescript/client.ts", "typescript/index.ts",
    "typescript/package.json", "typescript/tsconfig.json", "typescript/README.md">>

Range(seq) == {seq[i] : i \in 1..Len(seq)}

AllFiles == Range(GoFiles) \cup {MockFile} \cup Range(TSFiles)

Absent == [run |-> 0, complete |-> FALSE]

\* how os.WriteFile may fail: before the file is opened (the file is left as
\* it was) or while writing (the file is left truncated)
FailureModes == {"open", "write"}

\* os.WriteFile of file by run number run; failure is "" or a failure mode
WriteFile(dir, file, run, failure) ==
  IF failure = "open" THEN dir
  ELSE [dir EXCEPT ![file] = [run |-> run, complete |-> failure = ""]]

\* the steps of a Generate from step i on: the first failing step returns
\* its error, the files already written stay; failAt is the step that fails
\* (0 for os.MkdirAll, Len(steps) + 1 for none)
RECURSIVE RunSteps(_, _, _, _, _, _)
RunSteps(dir, steps, i, run, failAt, mode) ==
  IF i > Len(steps) THEN [dir |-> dir, err |-> ""]
  ELSE IF i = failAt
  THEN [dir |-> WriteFile(dir, steps[i], run, mode), err |-> steps[i]]
  ELSE RunSteps(WriteFile(dir, steps[i], run, ""), steps, i + 1, run, failAt, mode)

\* Generator.Generate (Go target)
Generate(dir, run, failAt, mode) ==
  IF failAt = 0 THEN [dir |-> dir, err |-> "failed to create output directory"]
  ELSE RunSteps(dir, GoFiles, 1, run, failAt, mode)

\* Generator.GenerateWithMock
GenerateWithMock(dir, run, failAt, mode) ==
  LET g == Generate(dir, run, failAt, mode)
  IN IF g.err # "" THEN g
     ELSE RunSteps(g.dir, <<MockFile>>, 1, run, failAt - Len(GoFiles), mode)

\* typescript Generator.Generate
GenerateTS(dir, run, failAt, mode) ==
  IF failAt = 0 THEN [dir |-> dir, err |-> "failed to create output directory"]
  ELSE RunSteps(dir, TSFiles, 1, run, failAt, mode)

NotGenerated == [op |-> "", run |-> 0, err |-> ""]

GenIdle ==
  /\ files = [f \in AllFiles |-> Absent]
  /\ runs = 0
  /\ generated = NotGenerated

GenInit == GenIdle

\* the failures a run of n steps may meet: none, os.MkdirAll, or one step
Failures(n) ==
  {[failAt |-> n + 1, mode |-> ""], [failAt |-> 0, mode |-> ""]}
    \cup [failAt : 1..n, mode : FailureModes]

CallGenerate ==
  /\ runs < MaxRuns
  /\ \E x \in Failures(Len(GoFiles)) :
       LET r == Generate(files, runs + 1, x.failAt, x.mode)
       IN /\ files' = r.dir
          /\ generated' = [op |-> "Generate", run |-> runs + 1, err |-> r.err]
  /\ runs' = runs + 1
  /\ UNCHANGED <<projVars, normVars, secVars, codecVars, serveVars, pipeVars, logVars, emitVars, infoVars>>

CallGenerateWithMock ==
  /\ runs < MaxRuns
  /\ \E x \in Failures(Len(GoFiles) + 1) :
       LET r == GenerateWithMock(files, runs + 1, x.failAt, x.mode)
       IN /\ files' = r.dir
          /\ generated' = [op |-> "GenerateWithMock", run |-> runs + 1, err |-> r.err]
  /\ runs' = runs + 1
  /\ UNCHANGED <<projVars, normVars, secVars, codecVars, serveVars, pipeVars, logVars, emitVars, infoVars>>

CallGenerateTS ==
  /\ runs < MaxRuns
  /\ \E x \in Failures(Len(TSFiles)) :
       LET r == GenerateTS(files, runs + 1, x.failAt, x.mode)
       IN /\ files' = r.dir
          /\ generated' = [op |-> "GenerateTS", run |-> runs + 1, err |-> r.err]
  /\ runs' = runs + 1
  /\ UNCHANGED <<projVars, normVars, secVars, codecVars, serveVars, pipeVars, logVars, emitVars, infoVars>>

GenNext ==
  \/ CallGenerate
  \/ CallGenerateWithMock
  \/ CallGenerateTS

(***************************************************************************)
(* The bridge serving requests concurrently (pkg/server/server.go)         *)
(***************************************************************************)
NumCalls == 2

CallIds == 1..NumCalls

\* the frame of one handler goroutine: pc is "idle" (no request), "bound"
\* (the JSON body is decoded), "posted" (client.Do is under way) or
\* "answered" (c.JSON has written the response); posts counts client.Do calls
IdleCall ==
  [pc |-> "idle", op |-> "", body |-> Nil, order |-> <<>>, soapAction |-> "", posts |-> 0,
   envelope |-> Nil, outcome |-> Nil, status |-> 0, answer |-> Nil]

ServeIdle ==
  /\ started = FALSE
  /\ calls = [c \in CallIds |-> IdleCall]

\* the request bodies and upstream outcomes used when requests interleave
ServeBodies ==
  {InvalidBody,
   [valid |-> TRUE, params |-> [intA |-> JSONString("1")]],
   [valid |-> TRUE, params |-> [intA |-> JSONNull]]}

ServeOutcomes(requestDoc) ==
  {o \in UpstreamOutcomes(requestDoc) :
     \/ o.kind = "transport-error"
     \/ /\ o.kind = "reply"
        /\ o.status \in {200, 500}
        /\ o.doc \in {Doc("soap", "Envelope", SOAP11Namespace, Nil, <<AddResponse>>),
                      Doc("soap", "Envelope", SOAP11Namespace, Nil, <<Fault11>>),
                      [Doc("", "html", "", Nil, <<>>) EXCEPT !.wf = FALSE]}}

\* c.ShouldBindJSON(&requestBody), and the 400 answer when it fails
ServeBind(s, cs, c, op, body) ==
  IF ~body.valid
  THEN [cs EXCEPT ![c] = [IdleCall EXCEPT !.pc = "answered", !.op = op.Name, !.body = body,
                                          !.status = 400,
                                          !.answer = [error |-> "Invalid request body"]]]
  ELSE [cs EXCEPT ![c] = [IdleCall EXCEPT !.pc = "bound", !.op = op.Name, !.body = body]]

\* the soapAction lookup and callSOAP up to client.Do(req), with order the
\* order the range over the parameters took; the early returns of callSOAP
\* are answered with 500
ServePost(s, cs, c, order) ==
  LET k == cs[c]
      soapAction == HandlerSoapAction(s.definitions, k.op)
      failed(err, envelope) ==
        [k EXCEPT !.pc = "answered", !.order = order, !.soapAction = soapAction,
                  !.envelope = envelope, !.status = 500,
                  !.answer = [error |-> "SOAP call failed", operation |-> k.op,
                              details |-> err]]
  IN IF s.soapEndpoint = ""
     THEN [cs EXCEPT ![c] = failed("SOAP endpoint not configured", Nil)]
     ELSE LET xmlData == buildSOAPEnvelope(s, k.op, k.body.params, order) IN
       IF s.soapEndpoint \in InvalidURLs
       THEN [cs EXCEPT ![c] = failed("failed to create request", xmlData)]
       ELSE [cs EXCEPT ![c] = [k EXCEPT !.pc = "posted", !.order = order,
                                        !.soapAction = soapAction, !.envelope = xmlData,
                                        !.posts = @ + 1]]

ServeReplyRetrying(s, cs, c, outcome) ==
  IF outcome.kind = "transport-error"
  THEN [cs EXCEPT ![c] = [cs[c] EXCEPT !.pc = "bound", !.outcome = outcome]]
  ELSE [cs EXCEPT ![c] = [cs[c] EXCEPT !.pc = "answered", !.outcome = outcome, !.status = 200,
                                       !.answer = [operation |-> cs[c].op, status |-> "success",
                                                   request |-> cs[c].body.params,
                                                   response |-> <<>>]]]

ServeReplySharedError(s, cs, c, outcome) ==
  LET bad == outcome.kind # "reply" \/ parseSOAPResponse(outcome.doc).err # ""
      own == IF bad
             THEN [cs[c] EXCEPT !.pc = "answered", !.outcome = outcome, !.status = 500,
                                !.answer = [error |-> "SOAP call failed", operation |-> cs[c].op,
                                            details |-> "failed"]]
             ELSE [cs[c] EXCEPT !.pc = "answered", !.outcome = outcome, !.status = 200,
                                !.answer = [operation |-> cs[c].op, status |-> "success",
                                            request |-> cs[c].body.params,
                                            response |-> parseSOAPResponse(outcome.doc).result]]
  IN [d \in DOMAIN cs |->
        IF d = c THEN own
        ELSE IF bad /\ cs[d].pc = "posted" THEN [cs[d] EXCEPT !.pc = "answered", !.status = 500,
                                                             !.answer = own.answer]
        ELSE cs[d]]

\* the rest of callSOAP once client.Do has returned outcome, and the answer
\* the handler writes: only the frame of this request is touched
ServeReply(s, cs, c, outcome) ==
  LET k == cs[c]
      err == IF outcome.kind = "transport-error" THEN "SOAP call failed"
             ELSE IF outcome.kind = "read-error" THEN "failed to read response"
             ELSE IF parseSOAPResponse(outcome.doc).err # "" THEN "failed to parse SOAP response"
             ELSE ""
  IN IF err # ""
     THEN [cs EXCEPT ![c] = [k EXCEPT !.pc = "answered", !.outcome = outcome, !.status = 500,
                                      !.answer = [error |-> "SOAP call failed",
                                                  operation |-> k.op, details |-> err]]]
     ELSE [cs EXCEPT ![c] = [k EXCEPT !.pc = "answered", !.outcome = outcome, !.status = 200,
                                      !.answer = [operation |-> k.op, status |-> "success",
                                                  request |-> k.body.params,
                                                  response |-> parseSOAPResponse(outcome.doc).result]]]

ServeInit ==
  /\ started = FALSE
  /\ calls = [c \in CallIds |-> IdleCall]
  /\ server \in {NewServer(def) : def \in DefinitionsSet}
  /\ client = Nil
  /\ call = NoCall
  /\ inbound = NoInbound

\* srv.SetSOAPEndpoint(e), before the server is started
ServeSetSOAPEndpoint ==
  /\ ~started
  /\ \E e \in Endpoints : server' = SetSOAPEndpoint(server, e)
  /\ UNCHANGED <<client, call, inbound, projVars, normVars, secVars, genVars, serveVars, pipeVars, logVars, emitVars, infoVars>>

\* srv.SetSOAPVersion(v), before the server is started
ServeSetSOAPVersion ==
  /\ ~started
  /\ \E v \in SOAPVersions : server' = ServerSetSOAPVersion(server, v)
  /\ UNCHANGED <<client, call, inbound, projVars, normVars, secVars, genVars, serveVars, pipeVars, logVars, emitVars, infoVars>>

\* srv.Start(): the routes are set up and the router runs
ServeStart ==
  /\ ~started
  /\ started' = TRUE
  /\ UNCHANGED <<calls, codecVars, projVars, normVars, secVars, genVars, pipeVars, logVars, emitVars, infoVars>>

\* a POST /api/<op> arrives and its handler decodes the body
HandlerBind ==
  /\ started
  /\ \E c \in CallIds, op \in RoutedOperations(server.definitions), body \in ServeBodies :
       /\ calls[c].pc = "idle"
       /\ calls' = ServeBind(server, calls, c, op, body)
  /\ UNCHANGED <<started, codecVars, projVars, normVars, secVars, genVars, pipeVars, logVars, emitVars, infoVars>>

\* the handler builds the envelope and issues the upstream request
HandlerPost ==
  /\ \E c \in CallIds :
       /\ calls[c].pc = "bound"
       /\ \E order \in Orders(DOMAIN calls[c].body.params) :
            calls' = ServePost(server, calls, c, order)
  /\ UNCHANGED <<started, codecVars, projVars, normVars, secVars, genVars, pipeVars, logVars, emitVars, infoVars>>

\* the upstream request returns and the handler answers
HandlerReply ==
  /\ \E c \in CallIds :
       /\ calls[c].pc = "posted"
       /\ \E outcome \in ServeOutcomes(calls[c].envelope) :
            calls' = ServeReply(server, calls, c, outcome)
  /\ UNCHANGED <<started, codecVars, projVars, normVars, secVars, genVars, pipeVars, logVars, emitVars, infoVars>>

\* the answered request is gone; another may arrive
HandlerDone ==
  /\ \E c \in CallIds :
       /\ calls[c].pc = "answered"
       /\ calls' = [calls EXCEPT ![c] = IdleCall]
  /\ UNCHANGED <<started, codecVars, projVars, normVars, secVars, genVars, pipeVars, logVars, emitVars, infoVars>>

ServeNext ==
  \/ ServeSetSOAPEndpoint
  \/ ServeSetSOAPVersion
  \/ ServeStart
  \/ HandlerBind
  \/ HandlerPost
  \/ HandlerReply
  \/ HandlerDone

(***************************************************************************)
(* From the WSDL document to the three targets                             *)
(* (pkg/parser, pkg/generator, exporter, pkg/typescript)                   *)
(***************************************************************************)
\* the rawPart struct has the fields name, element and type: every other
\* attribute of a <part> (minOccurs among them) is dropped by the decoder
DecodePart(part) == [Name |-> part.name, Element |-> part.element, Type |-> part.type]

\* decoder.Decode(&rawWSDL): the document as the raw structs hold it
Decode(doc) ==
  [Name |-> doc.name,
   TargetNamespace |-> doc.targetNamespace,
   Service |-> doc.service,
   Binding |-> doc.binding,
   PortType |-> doc.portType,
   Message |-> [i \in 1..Len(doc.message) |->
                  [Name |-> doc.message[i].name,
                   Part |-> [j \in 1..Len(doc.message[i].part) |->
                               DecodePart(doc.message[i].part[j])]]]]

\* Parser.convertToModel
convertToModel(raw) ==
  [Name |-> raw.Name,
   TargetNamespace |-> raw.TargetNamespace,
   Services |-> [i \in 1..Len(raw.Service) |->
                   [Name |-> raw.Service[i].name,
                    Ports |-> [j \in 1..Len(raw.Service[i].port) |->
                                 [Name |-> raw.Service[i].port[j].name,
                                  Binding |-> raw.Service[i].port[j].binding,
                                  Address |-> raw.Service[i].port[j].address]]]],
   Bindings |-> [i \in 1..Len(raw.Binding) |->
                   [Name |-> raw.Binding[i].name,
                    Type |-> raw.Binding[i].type,
                    Operations |-> [j \in 1..Len(raw.Binding[i].operation) |->
                                      [Name |-> raw.Binding[i].operation[j].name,
                                       SoapAction |-> raw.Binding[i].operation[j].soapAction]]]],
   PortTypes |-> [i \in 1..Len(raw.PortType) |->
                    [Name |-> raw.PortType[i].name,
                     Operations |-> [j \in 1..Len(raw.PortType[i].operation) |->
                                       [Name |-> raw.PortType[i].operation[j].name,
                                        Input |-> [Name |-> raw.PortType[i].operation[j].input],
                                        Output |-> [Name |-> raw.PortType[i].operation[j].output]]]]],
   Messages |-> [i \in 1..Len(raw.Message) |->
                   [Name |-> raw.Message[i].Name,
                    Parts |-> [j \in 1..Len(raw.Message[i].Part) |->
                                 [Name |-> raw.Message[i].Part[j].Name,
                                  Element |-> raw.Message[i].Part[j].Element,
                                  Type |-> raw.Message[i].Part[j].Type]]]],
   Types |-> <<>>]

\* Parser.Parse of a document that could be read and decoded
Parse(doc) == convertToModel(Decode(doc))

\* findMessage (the generator's and the exporter's are the same): prefixes
\* are removed on both sides, the first message of that name is returned
findMessage(def, name) ==
  LET wanted == StripPrefix(name)
      hits == {i \in 1..Len(def.Messages) : StripPrefix(def.Messages[i].Name) = wanted}
  IN IF hits = {} THEN Nil
     ELSE def.Messages[CHOOSE i \in hits : \A j \in hits : i <= j]

DefaultEndpoint == "http://localhost:8080/service"

\* a findServiceEndpoint that takes the address of the first port, empty or not
FindServiceEndpointFirstPort(def) ==
  IF \E i \in 1..Len(def.Services) : Len(def.Services[i].Ports) > 0
  THEN LET i == CHOOSE k \in 1..Len(def.Services) :
                  /\ Len(def.Services[k].Ports) > 0
                  /\ \A l \in 1..(k - 1) : Len(def.Services[l].Ports) = 0
       IN def.Services[i].Ports[1].Address
  ELSE DefaultEndpoint

\* Generator.findServiceEndpoint: the first non-empty port address
findServiceEndpoint(def) ==
  LET ports == {<<i, j>> \in (1..Len(def.Services)) \X (1..3) :
                  j <= Len(def.Services[i].Ports) /\ def.Services[i].Ports[j].Address # ""}
  IN IF ports = {} THEN DefaultEndpoint
     ELSE LET first == CHOOSE p \in ports :
                         \A q \in ports : p[1] < q[1] \/ (p[1] = q[1] /\ p[2] <= q[2])
          IN def.Services[first[1]].Ports[first[2]].Address

RECURSIVE FlattenOperations(_)
\* the operations in the order "for portType ... for op ..." visits them
FlattenOperations(portTypes) ==
  IF portTypes = <<>> THEN <<>>
  ELSE Head(portTypes).Operations \o FlattenOperations(Tail(portTypes))

\* one struct field generateTypesImproved writes for a message part
GoField(part) ==
  [fieldName |-> toPascalCase(part.Name),
   fieldType |-> mapXSDTypeToGo(part.Type),
   xmlTag |-> part.Name]

\* the structs generateTypesImproved writes for one operation: none when
\* either message is missing
GoStructsOf(def, op) ==
  LET methodName == toPascalCase(op.Name)
      inputMsg == findMessage(def, op.Input.Name)
      outputMsg == findMessage(def, op.Output.Name)
  IN IF inputMsg = Nil \/ outputMsg = Nil THEN <<>>
     ELSE <<[name |-> methodName \o <<"R","e","q","u","e","s","t">>,
             fields |-> [i \in 1..Len(inputMsg.Parts) |-> GoField(inputMsg.Parts[i])]],
            [name |-> methodName \o <<"R","e","s","p","o","n","s","e">>,
             fields |-> [i \in 1..Len(outputMsg.Parts) |-> GoField(outputMsg.Parts[i])]]>>

RECURSIVE GoStructsFrom(_, _)
GoStructsFrom(def, ops) ==
  IF ops = <<>> THEN <<>>
  ELSE GoStructsOf(def, Head(ops)) \o GoStructsFrom(def, Tail(ops))

\* Generator.generateTypesImproved: the content of types.go
generateTypesImproved(def) == GoStructsFrom(def, FlattenOperations(def.PortTypes))

\* convertMessageToSchema: an object schema with one property per part; the
\* OpenAPISchema struct has no field for a list of required properties
convertMessageToSchema(msg) ==
  IF Len(msg.Parts) = 0 THEN [Type |-> "object", Properties |-> Nil]
  ELSE [Type |-> "object",
        Properties |-> [n \in {msg.Parts[i].Name : i \in 1..Len(msg.Parts)} |->
                          LET last == CHOOSE i \in 1..Len(msg.Parts) :
                                        /\ msg.Parts[i].Name = n
                                        /\ \A j \in (i + 1)..Len(msg.Parts) : msg.Parts[j].Name # n
                          IN xsdTypeToOpenAPISchema(msg.Parts[last].Type)]]

FaultSchema ==
  [Type |-> "object",
   Properties |-> [n \in {<<"f","a","u","l","t","c","o","d","e">>, <<"f","a","u","l","t","s","t","r","i","n","g">>, <<"d","e","t","a","i","l">>} |->
                     [Type |-> "string", Format |-> ""]]]

ApiPath(name) == <<"/","a","p","i","/">> \o name

\* a POST operation that gets its 500 response only next to a 200 response
OpenAPIOperationFaultWithOutput(def, op) ==
  LET inputMsg == findMessage(def, op.Input.Name)
      outputMsg == findMessage(def, op.Output.Name)
      answers == IF outputMsg # Nil THEN {"200", "500"} ELSE {}
  IN [Summary |-> op.Name,
      OperationID |-> op.Name,
      RequestBody |-> IF inputMsg # Nil
                      THEN [Required |-> TRUE, Schema |-> convertMessageToSchema(inputMsg)]
                      ELSE Nil,
      Responses |-> [code \in answers |->
                       IF code = "500"
                       THEN [Description |-> "SOAP Fault", Schema |-> FaultSchema]
                       ELSE [Description |-> "Successful response",
                             Schema |-> convertMessageToSchema(outputMsg)]]]

\* the POST operation ConvertWSDLToOpenAPI builds for one WSDL operation
OpenAPIOperationOf(def, op) ==
  LET inputMsg == findMessage(def, op.Input.Name)
      outputMsg == findMessage(def, op.Output.Name)
      fault == [Description |-> "SOAP Fault", Schema |-> FaultSchema]
  IN [Summary |-> op.Name,
      OperationID |-> op.Name,
      RequestBody |-> IF inputMsg # Nil
                      THEN [Required |-> TRUE, Schema |-> convertMessageToSchema(inputMsg)]
                      ELSE Nil,
      Responses |-> IF outputMsg # Nil
                    THEN [code \in {"200", "500"} |->
                            IF code = "500" THEN fault
                            ELSE [Description |-> "Successful response",
                                  Schema |-> convertMessageToSchema(outputMsg)]]
                    ELSE [code \in {"500"} |-> fault]]

\* ConvertWSDLToOpenAPI: Paths is a map, a later operation of the same name
\* replaces an earlier one
ConvertWSDLToOpenAPI(def) ==
  LET ops == FlattenOperations(def.PortTypes)
      addresses == {<<i, j>> \in (1..Len(def.Services)) \X (1..3) :
                      j <= Len(def.Services[i].Ports) /\ def.Services[i].Ports[j].Address # ""}
  IN [OpenAPI |-> "3.0.0",
      Title |-> def.Name,
      Servers |-> {def.Services[p[1]].Ports[p[2]].Address : p \in addresses},
      Paths |-> [path \in {ApiPath(ops[i].Name) : i \in 1..Len(ops)} |->
                   LET last == CHOOSE i \in 1..Len(ops) :
                                 /\ ApiPath(ops[i].Name) = path
                                 /\ \A j \in (i + 1)..Len(ops) : ApiPath(ops[j].Name) # path
                   IN [Post |-> OpenAPIOperationOf(def, ops[last])]]]

\* generateTypeFromSchema: every property is written "name: type;"
generateTypeFromSchema(name, schema) ==
  [name |-> name,
   props |-> IF schema.Properties = Nil THEN <<>>
             ELSE [n \in DOMAIN schema.Properties |->
                     [tsType |-> openAPITypeToTS(schema.Properties[n]), optional |-> FALSE]]]

\* the TypeScript Generator.generateTypes: the interfaces of types.ts
generateTypes(spec) ==
  UNION {LET op == spec.Paths[path].Post IN
           (IF op.RequestBody # Nil
            THEN {generateTypeFromSchema(toPascalCaseTS(op.OperationID) \o <<"R","e","q","u","e","s","t">>,
                                         op.RequestBody.Schema)}
            ELSE {})
           \cup
           (IF "200" \in DOMAIN op.Responses
            THEN {generateTypeFromSchema(toPascalCaseTS(op.OperationID) \o <<"R","e","s","p","o","n","s","e">>,
                                         op.Responses["200"].Schema)}
            ELSE {})
         : path \in DOMAIN spec.Paths}

(***************************************************************************)
(* Operators, mock handlers and the bridge's routes for parsed definitions *)
(***************************************************************************)
\* Generator.findSoapAction: the first binding operation of that name
findSoapAction(def, opName) ==
  LET matching == {b \in 1..Len(def.Bindings) :
                     \E i \in 1..Len(def.Bindings[b].Operations) :
                       def.Bindings[b].Operations[i].Name = opName}
  IN IF matching = {} THEN ""
     ELSE LET b == CHOOSE x \in matching : \A y \in matching : x <= y
              ops == def.Bindings[b].Operations
              i == CHOOSE x \in 1..Len(ops) :
                     ops[x].Name = opName /\ \A y \in 1..(x - 1) : ops[y].Name # opName
          IN ops[i].SoapAction

\* generateInputStruct: the composite literal "&<Msg>Request{Field: value, ...}",
\* named after the input MESSAGE
generateInputStruct(msg) ==
  [struct |-> toPascalCase(msg.Name) \o <<"R","e","q","u","e","s","t">>,
   fields |-> [i \in 1..Len(msg.Parts) |-> toPascalCase(msg.Parts[i].Name)]]

\* the function generateOperatorsImproved writes for one operation: none
\* when either message is missing
OperatorOf(def, op) ==
  LET methodName == toPascalCase(op.Name)
      inputMsg == findMessage(def, op.Input.Name)
      outputMsg == findMessage(def, op.Output.Name)
  IN IF inputMsg = Nil \/ outputMsg = Nil THEN <<>>
     ELSE <<[name |-> methodName,
             operation |-> op.Name,
             request |-> generateInputStruct(inputMsg),
             response |-> methodName \o <<"R","e","s","p","o","n","s","e">>,
             result |-> methodName \o <<"R","e","s","u","l","t">>,
             soapAction |-> findSoapAction(def, op.Name)]>>

RECURSIVE OperatorsFrom(_, _)
OperatorsFrom(def, ops) ==
  IF ops = <<>> THEN <<>>
  ELSE OperatorOf(def, Head(ops)) \o OperatorsFrom(def, Tail(ops))

\* Generator.generateOperatorsImproved: the content of operators.go
generateOperatorsImproved(def) == OperatorsFrom(def, FlattenOperations(def.PortTypes))

\* Generator.generateMockServer: one Mock<Op> per operation, returning
\* &<Op>Response{}
generateMockServer(def) ==
  LET ops == FlattenOperations(def.PortTypes)
  IN [i \in 1..Len(ops) |->
        [name |-> <<"M","o","c","k">> \o toPascalCase(ops[i].Name),
         response |-> toPascalCase(ops[i].Name) \o <<"R","e","s","p","o","n","s","e">>]]

\* the registrations setupRoutes asks the router for, in order
RouteRequests(def) ==
  LET ops == FlattenOperations(def.PortTypes)
  IN <<[method |-> "GET", path |-> <<"/","h","e","a","l","t","h">>],
       [method |-> "GET", path |-> <<"/","i","n","f","o">>]>>
     \o [k \in 1..(2 * Len(ops)) |->
           IF k % 2 = 1
           THEN [method |-> "POST", path |-> ApiPath(ops[(k + 1) \div 2].Name)]
           ELSE [method |-> "GET", path |-> ApiPath(ops[k \div 2].Name) \o <<"/","i","n","f","o">>]]

\* Server.setupRoutes: the router panics at the first registration of a
\* (method, path) pair it already holds, and nothing after it is registered
setupRoutes(def) ==
  LET requests == RouteRequests(def)
      repeated == {k \in 1..Len(requests) : \E j \in 1..(k - 1) : requests[j] = requests[k]}
  IN IF repeated = {} THEN [routes |-> requests, panic |-> FALSE]
     ELSE LET k == CHOOSE x \in repeated : \A y \in repeated : x <= y
          IN [routes |-> SubSeq(requests, 1, k - 1), panic |-> TRUE]

RECURSIVE PartsOfNamed(_, _)
\* the parts of every message whose name is exactly the given one
PartsOfNamed(messages, name) ==
  IF messages = <<>> THEN <<>>
  ELSE (IF Head(messages).Name = name THEN Head(messages).Parts ELSE <<>>)
         \o PartsOfNamed(Tail(messages), name)

\* the handler createOperationInfoHandler(op) returns, run on one request
createOperationInfoHandler(def, op) ==
  [operation |-> op.Name,
   soapAction |-> HandlerSoapAction(def, op.Name),
   input |-> [message |-> op.Input.Name, parts |-> PartsOfNamed(def.Messages, op.Input.Name)],
   output |-> [message |-> op.Output.Name, parts |-> PartsOfNamed(def.Messages, op.Output.Name)]]

(***************************************************************************)
(* Pipeline runs: parse, then generate each target                         *)
(***************************************************************************)
OperationNames == {<<"A","d","d">>, <<"g","e","t","_","x">>}
PartNames == {<<"i","n","t","A">>, <<"n","o","t","e">>}
PartTypes == {<<"x","s","d",":","s","t","r","i","n","g">>, <<"x","s","d",":","i","n","t">>, <<"t","n","s",":","I","t","e","m">>, <<>>}
OutputRefs == {<<"t","n","s",":","A","d","d","R","e","s","p","o","n","s","e">>, <<"t","n","s",":","M","i","s","s","i","n","g">>}
InputRefs == {<<"A","d","d","R","e","q","u","e","s","t">>, <<"t","n","s",":","M","i","s","s","i","n","g">>}
PortAddresses == {<<"", "">>, <<"", "http://b">>, <<"http://a", "http://b">>}

\* the soapAction attributes of the document's bindings, one binding each
BindingActions == {<<"urn:op">>, <<"urn:op", "urn:op12">>}
\* whether the two operations are in one portType or in one portType each
PortTypeLayouts == {"one", "two"}

\* a document with one service of two ports, bindings that all declare the
\* first operation, two operations (the second always named Add) and the
\* two messages of Add
WSDLDocument(opName, part, outputRef, inputRef, addresses, actions, layout) ==
  LET first == [name |-> opName,
                input |-> <<"t","n","s",":","A","d","d","R","e","q","u","e","s","t">>,
                output |-> outputRef]
      second == [name |-> <<"A","d","d">>,
                 input |-> inputRef,
                 output |-> <<"t","n","s",":","A","d","d","R","e","s","p","o","n","s","e">>]
  IN
  [name |-> "Calculator",
   targetNamespace |-> "http://tempuri.org/",
   service |-> <<[name |-> "Calculator",
                  port |-> <<[name |-> "p1", binding |-> "tns:b", address |-> addresses[1]],
                             [name |-> "p2", binding |-> "tns:b", address |-> addresses[2]]>>]>>,
   binding |-> [i \in 1..Len(actions) |->
                  [name |-> "b", type |-> "tns:pt",
                   operation |-> <<[name |-> opName, soapAction |-> actions[i]]>>]],
   portType |-> IF layout = "one"
                THEN <<[name |-> "pt", operation |-> <<first, second>>]>>
                ELSE <<[name |-> "pt", operation |-> <<first>>],
                       [name |-> "pt2", operation |-> <<second>>]>>,
   message |-> <<[name |-> <<"A","d","d","R","e","q","u","e","s","t">>, part |-> <<part>>],
                 [name |-> <<"A","d","d","R","e","s","p","o","n","s","e">>,
                  part |-> <<[name |-> <<"r","e","s","u","l","t">>, element |-> "",
                              type |-> <<"x","s","d",":","i","n","t">>, minOccurs |-> ""]>>]>>]

WSDLDocuments ==
  {WSDLDocument(n, [name |-> pn, element |-> "", type |-> pt, minOccurs |-> mo], o, i, a, b, l) :
     n \in OperationNames, pn \in PartNames, pt \in PartTypes, mo \in MinOccursValues,
     o \in OutputRefs, i \in InputRefs, a \in PortAddresses, b \in BindingActions,
     l \in PortTypeLayouts}

EmitIdle ==
  /\ operators = Nil
  /\ mockHandlers = Nil

InfoIdle ==
  /\ routes = <<>>
  /\ routerPanic = FALSE
  /\ opInfo = Nil

PipeIdle ==
  /\ wsdl = Nil
  /\ definitions = Nil
  /\ goTypes = Nil
  /\ openAPI = Nil
  /\ tsTypes = Nil
  /\ clientEndpoint = ""
  /\ pipeDone = {}
  /\ urlArg = ""

PipeInit ==
  /\ wsdl \in WSDLDocuments
  /\ definitions = Nil
  /\ goTypes = Nil
  /\ openAPI = Nil
  /\ tsTypes = Nil
  /\ clientEndpoint = ""
  /\ pipeDone = {}
  /\ urlArg = ""

\* Parser.Parse
CallParse ==
  /\ "parse" \notin pipeDone
  /\ definitions' = Parse(wsdl)
  /\ pipeDone' = pipeDone \cup {"parse"}
  /\ UNCHANGED <<wsdl, goTypes, openAPI, tsTypes, clientEndpoint, urlArg>>
  /\ UNCHANGED <<projVars, normVars, secVars, codecVars, genVars, serveVars, logVars, emitVars, infoVars>>

\* Generator.Generate or GenerateWithMock on the parsed definitions: the
\* endpoint compiled into client.go, types.go, operators.go and, with
\* mock, the mock handlers
CallGenerateTypes ==
  /\ "parse" \in pipeDone
  /\ "go" \notin pipeDone
  /\ clientEndpoint' = findServiceEndpoint(definitions)
  /\ goTypes' = generateTypesImproved(definitions)
  /\ operators' = generateOperatorsImproved(definitions)
  /\ \E mock \in BOOLEAN :
       mockHandlers' = IF mock THEN generateMockServer(definitions) ELSE Nil
  /\ pipeDone' = pipeDone \cup {"go"}
  /\ UNCHANGED <<wsdl, definitions, openAPI, tsTypes, urlArg>>
  /\ UNCHANGED <<projVars, normVars, secVars, codecVars, genVars, serveVars, logVars, infoVars>>

\* exporter.ConvertWSDLToOpenAPI on the parsed definitions
CallConvertWSDLToOpenAPI ==
  /\ "parse" \in pipeDone
  /\ "openapi" \notin pipeDone
  /\ openAPI' = ConvertWSDLToOpenAPI(definitions)
  /\ pipeDone' = pipeDone \cup {"openapi"}
  /\ UNCHANGED <<wsdl, definitions, goTypes, tsTypes, clientEndpoint, urlArg>>
  /\ UNCHANGED <<projVars, normVars, secVars, codecVars, genVars, serveVars, logVars, emitVars, infoVars>>

\* the TypeScript generator on the exported document
CallGenerateTSTypes ==
  /\ "openapi" \in pipeDone
  /\ "ts" \notin pipeDone
  /\ tsTypes' = generateTypes(openAPI)
  /\ pipeDone' = pipeDone \cup {"ts"}
  /\ UNCHANGED <<wsdl, definitions, goTypes, openAPI, clientEndpoint, urlArg>>
  /\ UNCHANGED <<projVars, normVars, secVars, codecVars, genVars, serveVars, logVars, emitVars, infoVars>>

\* a program built with the generated package calls NewClient(url)
CallNewClient ==
  /\ "go" \in pipeDone
  /\ "client" \notin pipeDone
  /\ \E url \in ClientURLs :
       /\ client' = GeneratedNewClient(clientEndpoint, url)
       /\ urlArg' = url
  /\ pipeDone' = pipeDone \cup {"client"}
  /\ UNCHANGED <<wsdl, definitions, goTypes, openAPI, tsTypes, clientEndpoint>>
  /\ UNCHANGED <<call, server, inbound>>
  /\ UNCHANGED <<projVars, normVars, secVars, genVars, serveVars, logVars, emitVars, infoVars>>

\* server.NewServer on the parsed definitions and Server.Start up to
\* router.Run
CallSetupRoutes ==
  /\ "parse" \in pipeDone
  /\ "routes" \notin pipeDone
  /\ routes' = setupRoutes(definitions).routes
  /\ routerPanic' = setupRoutes(definitions).panic
  /\ pipeDone' = pipeDone \cup {"routes"}
  /\ UNCHANGED <<opInfo, wsdl, definitions, goTypes, openAPI, tsTypes, clientEndpoint, urlArg>>
  /\ UNCHANGED <<projVars, normVars, secVars, codecVars, genVars, serveVars, logVars, emitVars>>

\* GET /api/<op>/info on the running bridge
CallOperationInfo ==
  /\ "routes" \in pipeDone
  /\ ~routerPanic
  /\ \E op \in RoutedOperations(definitions) :
       opInfo' = createOperationInfoHandler(definitions, op)
  /\ pipeDone' = pipeDone \cup {"info"}
  /\ UNCHANGED <<routes, routerPanic, wsdl, definitions, goTypes, openAPI, tsTypes,
                 clientEndpoint, urlArg>>
  /\ UNCHANGED <<projVars, normVars, secVars, codecVars, genVars, serveVars, logVars, emitVars>>

PipeNext ==
  \/ CallSetupRoutes
  \/ CallOperationInfo
  \/ CallParse
  \/ CallGenerateTypes
  \/ CallConvertWSDLToOpenAPI
  \/ CallGenerateTSTypes
  \/ CallNewClient

(***************************************************************************)
(* Properties of the type projector                                        *)
(***************************************************************************)
\* the kind of value a Go type holds
GoKind(g) ==
  CASE g = <<"s","t","r","i","n","g">> -> "text"
    [] g \in {<<"i","n","t">>, <<"i","n","t","6","4">>, <<"i","n","t","1","6">>, <<"b","y","t","e">>} -> "integer"
    [] g \in {<<"f","l","o","a","t","3","2">>, <<"f","l","o","a","t","6","4">>} -> "floating-point"
    [] g = <<"b","o","o","l">> -> "boolean"
    [] g = <<"[","]","b","y","t","e">> -> "binary"
    [] OTHER -> "named"

\* the kind of value an OpenAPI schema describes
OpenAPIKind(schema) ==
  CASE schema.Type = "string" /\ schema.Format \in {"byte", "binary"} -> "binary"
    [] schema.Type = "string" -> "text"
    [] schema.Type = "integer" -> "integer"
    [] schema.Type = "number" -> "floating-point"
    [] schema.Type = "boolean" -> "boolean"
    [] OTHER -> "named"

\* the kinds of value a TypeScript type holds (number is both numeric kinds)
TSKinds(t) ==
  CASE t = "string" -> {"text"}
    [] t = "number" -> {"integer", "floating-point"}
    [] t = "boolean" -> {"boolean"}
    [] OTHER -> {"named"}

IsTablePrimitive(typeRef) == StripPrefix(typeRef) \in PrimitiveTable

\* C1: for every type reference whose local name is in the primitive table,
\* with or without a prefix, the Go, OpenAPI and TypeScript projections
\* resolve it to the same kind of value.
C1_ProjectionsAgree ==
  ({"go", "oa", "ts"} \subseteq projDone /\ IsTablePrimitive(elem.Type)) =>
    /\ GoKind(goType) = OpenAPIKind(oaSchema)
    /\ OpenAPIKind(oaSchema) \in TSKinds(tsType)

IsRepeated(maxOccurs) ==
  maxOccurs = "unbounded" \/ \E n \in 2..MaxOccursNum : maxOccurs = Numeral(n)

\* C2: when maxOccurs is "unbounded" or a number greater than 1 the field
\* type is the array of the base type and carries no pointer wrapper,
\* whatever minOccurs and nillable are.
C2_ArrayPrecedence ==
  ({"go", "field"} \subseteq projDone /\ IsRepeated(elem.MaxOccurs)) =>
    /\ fieldType = <<"[","]">> \o goType
    /\ ~Contains(fieldType, <<"*">>)

C2_Witness ==
  /\ {"go", "field"} \subseteq projDone
  /\ elem.Type = <<"s","t","r","i","n","g">>
  /\ elem.MinOccurs = "0"
  /\ elem.MaxOccurs = "unbounded"
  /\ fieldType = <<"[","]","s","t","r","i","n","g">>

\* the warnings a projection leaves behind: mapXSDTypeToGo and
\* xsdTypeToOpenAPISchema return the type and nothing else, and neither
\* writes to a log or a counter
ProjectionWarnings == {}

\* the types of each target that accept any value
OpaqueGoTypes == {<<"i","n","t","e","r","f","a","c","e","{","}">>, <<"a","n","y">>}
OpaqueOpenAPITypes == {"", "object"}
OpaqueTSTypes == {"any", "unknown", "Record<string, any>"}

\* C15: a type reference that is not in the primitive table (the parsed
\* definitions know no complex type) is projected to an opaque generic type
\* in every target, and each such degradation is counted as a warning
C15_UnknownDegradesObservably ==
  ({"go", "oa", "ts"} \subseteq projDone /\ ~IsTablePrimitive(elem.Type)) =>
    /\ goType \in OpaqueGoTypes
    /\ oaSchema.Type \in OpaqueOpenAPITypes
    /\ tsType \in OpaqueTSTypes
    /\ Cardinality(ProjectionWarnings) >= 1

RECURSIVE WithoutPointers(_)
\* a Go type without its leading pointer wrappers
WithoutPointers(t) == IF HasPrefix(t, <<"*">>) THEN WithoutPointers(Tail(t)) ELSE t

\* C21: getFieldType wraps the base type as an array if and only if
\* maxOccurs is "unbounded" or a number greater than 1; for maxOccurs
\* absent, "0" or "1" the result is not the array of the base type
C21_ArrayWrapIffRepeated ==
  {"go", "field"} \subseteq projDone =>
    (WithoutPointers(fieldType) = <<"[","]">> \o goType <=> IsRepeated(elem.MaxOccurs))

\* C22: an element that is not repeated (maxOccurs absent or "1") gets
\* exactly one optional wrapper when minOccurs is "0" or nillable is true,
\* and none when neither is, for every base type
C22_ExactlyOneOptionalWrapper ==
  ({"go", "field"} \subseteq projDone /\ elem.MaxOccurs \in {"", "1"}) =>
    fieldType = IF elem.MinOccurs = "0" \/ elem.Nillable
                THEN <<"*">> \o goType
                ELSE goType

(***************************************************************************)
(* Properties of the normalizers                                           *)
(***************************************************************************)
\* names made of letters, the four separators and the prefix colon
IsSegmentedName(s) ==
  /\ s # <<>>
  /\ \A i \in 1..Len(s) : s[i] \in {"a", "B", "_", "-", ".", " ", ":"}

\* C3: normalizing the exported form of a non-empty name again returns it
\* unchanged, for the Go normalizer and for the TypeScript normalizer.
C3_NormalizeIdempotent ==
  IsSegmentedName(rawName) =>
    /\ ("go2" \in normDone => goName.second = goName.first)
    /\ ("ts2" \in normDone => tsName.second = tsName.first)

\* the names an operation can have: letters and the separators an XML name
\* admits, no colon and no white space
IsOperationName(s) ==
  /\ s # <<>>
  /\ \A i \in 1..Len(s) : s[i] \in {"a", "B", "_", "-", "."}

\* C17: for every operation name the identifier the TypeScript generator
\* derives for the operation's types equals the one the Go generator derives
C17_SameIdentifierInGoAndTS ==
  ({"go", "ts"} \subseteq normDone /\ IsOperationName(rawName)) =>
    tsName.first = goName.first

RECURSIVE ExportedFrom(_, _)
\* the exported form read character by character: a separator starts a new
\* segment, the first letter of a segment is upper-cased (U+00E9 to U+00C9),
\* every other character is kept
ExportedFrom(s, atStart) ==
  IF s = <<>> THEN <<>>
  ELSE IF Head(s) \in Separators THEN ExportedFrom(Tail(s), TRUE)
  ELSE IF ~atStart THEN <<Head(s)>> \o ExportedFrom(Tail(s), FALSE)
  ELSE IF Len(s) >= 2 /\ SubSeq(s, 1, 2) = <<"xC3","xA9">>
  THEN <<"xC3","x89">> \o ExportedFrom(SubSeq(s, 3, Len(s)), FALSE)
  ELSE <<ToUpperASCII(Head(s))>> \o ExportedFrom(Tail(s), FALSE)

\* the exported form of a name: the segments after the last colon, each
\* with its first letter upper-cased
ExportedForm(s) == ExportedFrom(StripPrefix(s), TRUE)

\* C18: the Go toPascalCase of a name of letters, separators and colons is
\* the concatenation of its segments after the last ':', each with its
\* first letter upper-cased and the rest unchanged; the empty name gives
\* the empty identifier
C18_PascalCaseOfSegments ==
  ("go" \in normDone /\ \A i \in 1..Len(rawName) : rawName[i] # "\t") =>
    goName.first = ExportedForm(rawName)

(***************************************************************************)
(* Properties of the WS-Security header builder                            *)
(***************************************************************************)
DigitValue(c) == PosIn(Digits, c) - 1

TwoDigitValue(s, i) == 10 * DigitValue(s[i]) + DigitValue(s[i + 1])

\* the second an RFC3339 text ("ddThh:mm:ssZ") names, counted from day 1, 00:00:00
SecondsOfRFC3339(s) ==
  (((TwoDigitValue(s, 1) - 1) * 24 + TwoDigitValue(s, 4)) * 60 + TwoDigitValue(s, 7)) * 60
    + TwoDigitValue(s, 10)

DigestTokenEmitted ==
  /\ secArg # Nil
  /\ secHeader # Nil
  /\ secArg.UseDigest
  /\ secHeader.UsernameToken # Nil

\* C8: in digest mode the emitted password value is
\* base64(SHA1(nonce || created || password)) over the 16-byte nonce and the
\* Created text emitted in the same UsernameToken, with the PasswordDigest
\* type URI.
C8_DigestOverEmittedNonceAndCreated ==
  DigestTokenEmitted =>
    LET token == secHeader.UsernameToken
        nonce == Base64Decode(token.Nonce.Value)
    IN /\ Len(nonce) = NonceLen
       /\ token.Password.Type = PasswordDigestURI
       /\ token.Password.Value = Base64(Sha1(nonce \o token.Created \o secArg.Password))

\* a digest token whose Created is a later second than the Timestamp's
C8_Witness ==
  /\ DigestTokenEmitted
  /\ secHeader.UsernameToken.Nonce.Value = Base64([i \in 1..NonceLen |-> IF i % 2 = 0 THEN "x5A" ELSE "xC3"])
  /\ secHeader.UsernameToken.Created # secHeader.Timestamp.Created
  /\ secHeader.UsernameToken.Password.Value # Base64(Sha1(<<>>))

\* C9: for every non-nil credential NewSecurityHeader emits a Timestamp
\* whose Expires is exactly 5 minutes after its Created.
C9_ExpiresFiveMinutesAfterCreated ==
  secArg # Nil =>
    /\ secHeader # Nil
    /\ secHeader.Timestamp # Nil
    /\ SecondsOfRFC3339(secHeader.Timestamp.Expires)
         = SecondsOfRFC3339(secHeader.Timestamp.Created) + 5 * 60

\* a header without username built in the last second of the day
C9_Witness ==
  /\ secArg # Nil
  /\ secArg.Username = <<>>
  /\ secHeader # Nil
  /\ secHeader.Timestamp.Created = <<"0","1","T","2","3",":","5","7",":","5","9","Z">>
  /\ secHeader.Timestamp.Expires = <<"0","2","T","0","0",":","0","2",":","5","9","Z">>

\* C29: in digest mode the Created of the UsernameToken equals the Created of
\* the Timestamp of the same security header, whatever the clock did while
\* NewSecurityHeader ran
C29_OneCreatedPerHeader ==
  DigestTokenEmitted =>
    secHeader.UsernameToken.Created = secHeader.Timestamp.Created

(***************************************************************************)
(* Properties of the client and of the bridge                             *)
(***************************************************************************)
ClientGotReply == call.sent /\ call.outcome.kind = "reply"

BridgeGotReply == inbound.sent /\ inbound.outcome.kind = "reply"

\* C4: an upstream response whose Body holds a Fault element is reported as
\* a fault whatever its HTTP status: Client.Call returns a non-nil error, and
\* the bridge answers with an error response, never with status "success"
C4_FaultReportedAsFault ==
  /\ (ClientGotReply /\ HasFault(call.outcome.doc)) => call.err # ""
  /\ (BridgeGotReply /\ HasFault(inbound.outcome.doc))
       => (inbound.status # 200 /\ "error" \in DOMAIN inbound.answer)

\* C5: when the upstream answers 200 with the very envelope that was sent,
\* built for version 1.1 or 1.2 with any security setting, decoding returns
\* the payload that was encoded: the client's response is its request, the
\* bridge's result is the parameters it was given
C5_EnvelopeRoundTrip ==
  /\ (ClientGotReply /\ client.SOAPVersion \in {"1.1", "1.2"}
        /\ call.outcome.status = 200 /\ call.outcome.doc = call.envelope)
       => (call.err = "" /\ call.response = call.request)
  /\ (BridgeGotReply /\ server.soapVersion \in {"1.1", "1.2"}
        /\ inbound.outcome.status = 200 /\ inbound.outcome.doc = inbound.envelope)
       => (inbound.err = "" /\ inbound.result = inbound.body.params)

Root11 == [prefix |-> "soap", local |-> "Envelope", ns |-> SOAP11Namespace]

Root12 == [prefix |-> "env", local |-> "Envelope", ns |-> SOAP12Namespace]

\* C6 as stated: an envelope built for SOAP 1.1 has root soap:Envelope bound
\* to the 1.1 namespace and one built for SOAP 1.2 has root env:Envelope
\* bound to the 1.2 namespace, in the client and in the bridge
C6_RootPerVersion ==
  /\ (call.envelope # Nil /\ client.SOAPVersion = "1.1") => call.envelope.root = Root11
  /\ (call.envelope # Nil /\ client.SOAPVersion = "1.2") => call.envelope.root = Root12
  /\ (inbound.envelope # Nil /\ server.soapVersion = "1.1") => inbound.envelope.root = Root11
  /\ (inbound.envelope # Nil /\ server.soapVersion = "1.2") => inbound.envelope.root = Root12

\* C6 amended: an envelope built for SOAP 1.1 has root soap:Envelope bound to
\* the 1.1 namespace; one built for SOAP 1.2 has a root with local name
\* Envelope bound to the 1.2 namespace, under the prefix env in the client
\* and under the prefix soap12 in the bridge
C6_RootPerVersionAmended ==
  /\ (call.envelope # Nil /\ client.SOAPVersion = "1.1") => call.envelope.root = Root11
  /\ (call.envelope # Nil /\ client.SOAPVersion = "1.2") => call.envelope.root = Root12
  /\ (inbound.envelope # Nil /\ server.soapVersion = "1.1") => inbound.envelope.root = Root11
  /\ (inbound.envelope # Nil /\ server.soapVersion = "1.2")
       => inbound.envelope.root = [Root12 EXCEPT !.prefix = "soap12"]

\* the bridge has posted a 1.2 envelope and the client, elsewhere, builds one
C6_Witness ==
  /\ inbound.sent
  /\ server.soapVersion = "1.2"
  /\ inbound.envelope.root.prefix = "soap12"
  /\ inbound.envelope.root.ns = SOAP12Namespace

\* C7: Client.Call sends the SOAPAction header exactly when the envelope it
\* built is the SOAP 1.1 envelope, for every value of SOAPVersion; the
\* bridge never sends SOAPAction with a 1.2 envelope
C7_SOAPActionOnlyFor11 ==
  /\ call.sent
       => (("Soapaction" \in DOMAIN call.header) <=> (call.envelope.root.ns = SOAP11Namespace))
  /\ (inbound.sent /\ inbound.envelope.root.ns = SOAP12Namespace)
       => "Soapaction" \notin DOMAIN inbound.header

\* the parameter elements of the operation element the bridge built
BuiltParams == inbound.envelope.body[1].kids

\* C13: the SOAP body the bridge builds has no element for a key whose JSON
\* value is null, and exactly one element for every key with another value
C13_NullKeysOmitted ==
  (inbound.envelope # Nil) =>
    \A key \in DOMAIN inbound.body.params :
      Cardinality({i \in 1..Len(BuiltParams) : BuiltParams[i].k = key})
        = (IF inbound.body.params[key].kind = "null" THEN 0 ELSE 1)

\* C20: after any sequence of setter calls Security.UseDigest is true
\* exactly when the most recent authentication setter was SetDigestAuth,
\* Security.Username and Security.Password are that setter's arguments,
\* SOAPVersion is the most recent value set, and each setter leaves the
\* fields it does not name unchanged
C20_SettersFrame ==
  /\ [](client # Nil =>
          /\ setterLog.auth = Nil => client.Security = Nil
          /\ setterLog.auth # Nil =>
               /\ client.Security # Nil
               /\ client.Security.UseDigest <=> setterLog.auth.setter = "SetDigestAuth"
               /\ client.Security.Username = setterLog.auth.username
               /\ client.Security.Password = setterLog.auth.password
          /\ client.SOAPVersion = IF setterLog.version = Nil THEN "1.1" ELSE setterLog.version.value)
  /\ [][(client # Nil /\ client' # client) =>
          /\ client'.URL = client.URL
          /\ client'.HTTPClient = client.HTTPClient
          /\ setterLog'.last \in {"SetBasicAuth", "SetDigestAuth"} =>
               client'.SOAPVersion = client.SOAPVersion /\ client'.Headers = client.Headers
          /\ setterLog'.last = "SetSOAPVersion" =>
               client'.Security = client.Security /\ client'.Headers = client.Headers
          /\ setterLog'.last = "SetHeader" =>
               /\ client'.Security = client.Security
               /\ client'.SOAPVersion = client.SOAPVersion
               /\ \E k \in DOMAIN client'.Headers :
                    \A other \in DOMAIN client.Headers \ {k} :
                      other \in DOMAIN client'.Headers
                        /\ client'.Headers[other] = client.Headers[other]]_vars

\* SetDigestAuth, then a version and a header set, on a client that had
\* basic authentication or none
C20_Witness ==
  /\ client # Nil
  /\ setterLog.auth # Nil
  /\ setterLog.auth.setter = "SetDigestAuth"
  /\ setterLog.last = "SetHeader"
  /\ setterLog.version = [value |-> "1.2"]
  /\ client.Security.UseDigest
  /\ DOMAIN client.Headers # {}

\* the envelope shape of the version a client is configured with
HintedShape(c) == IF c.SOAPVersion = "1.2" THEN "1.2" ELSE "1.1"

\* C23: Call decodes a reply first in the envelope shape of the version the
\* client is configured with, then, only if that failed, in the other
\* version's shape, and returns a decode error only when both failed
C23_HintedShapeFirst ==
  (client # Nil /\ call.returned /\ call.attempts # <<>>) =>
    /\ call.attempts[1] = HintedShape(client)
    /\ Len(call.attempts) = 2 => call.attempts[2] # HintedShape(client)
    /\ call.err = "failed to unmarshal response" => Len(call.attempts) = 2

\* C27: for a request whose values are all strings, the envelope the bridge
\* builds is well-formed and its body holds exactly one operation element
\* whose children, as a parser reads them, are exactly one element per JSON
\* key, named by the key and holding the value as text
C27_OneElementPerKey ==
  (inbound.envelope # Nil
     /\ \A key \in DOMAIN inbound.body.params : inbound.body.params[key].kind = "string") =>
    /\ inbound.envelope.wf
    /\ Len(inbound.envelope.body) = 1
    /\ inbound.envelope.body[1].local = inbound.operation
    /\ LET read == ChildrenRead(BuiltParams) IN
       /\ Len(read) = Cardinality(DOMAIN inbound.body.params)
       /\ \A key \in DOMAIN inbound.body.params :
            \E i \in 1..Len(read) :
              read[i] = [k |-> key, v |-> inbound.body.params[key].text]

\* C28: two requests to the same bridge with the same operation and the same
\* JSON body are given the same envelope, parameter elements in the same
\* order
C28_EnvelopeDeterministic ==
  [][(/\ inbound.envelope # Nil
      /\ inbound'.envelope # Nil
      /\ server' = server
      /\ inbound'.operation = inbound.operation
      /\ inbound'.body = inbound.body)
       => inbound'.envelope = inbound.envelope]_vars

(***************************************************************************)
(* Properties of code generation                                          *)
(***************************************************************************)
\* the files of the target of the last run
TargetFiles ==
  CASE generated.op = "Generate" -> Range(GoFiles)
    [] generated.op = "GenerateWithMock" -> Range(GoFiles) \cup {MockFile}
    [] generated.op = "GenerateTS" -> Range(TSFiles)
    [] OTHER -> {}

\* the files the last run left in the output directory
WrittenByLastRun == {f \in AllFiles : files[f].run = generated.run}

\* C10: generation is all-or-nothing per target: after a run returns, if it
\* failed no file written by it remains, and either every file of the target
\* was written by it, whole, or none was
C10_AllOrNothing ==
  generated.op # ""
    => /\ generated.err # "" => WrittenByLastRun = {}
       /\ \/ WrittenByLastRun = {}
          \/ /\ WrittenByLastRun = TargetFiles
             /\ \A f \in TargetFiles : files[f].complete

(***************************************************************************)
(* Properties of the bridge serving requests                              *)
(***************************************************************************)
Answered(c) == calls[c].pc = "answered"

\* no request can be made: the body is not JSON, or no endpoint is configured
NoPostAsStated(c) == ~calls[c].body.valid \/ server.soapEndpoint = ""

OwnAnswer(c) ==
  LET r == createOperationHandler(server, [Name |-> calls[c].op], calls[c].body,
                                  calls[c].order, calls[c].outcome)
  IN [status |-> r.status, answer |-> r.answer]

\* C12: interleaved requests are independent: no handler step writes to the
\* Server (and so to its ServiceDefinition), a step of one request leaves
\* the frames of the others alone, and every answer is the function of the
\* request's own body and upstream reply and of the configuration
C12_RequestsIndependent ==
  /\ [][started => server' = server]_vars
  /\ [][\A c \in CallIds :
          calls'[c] # calls[c] => \A d \in CallIds \ {c} : calls'[d] = calls[d]]_vars
  /\ [](\A c \in CallIds :
          Answered(c) => [status |-> calls[c].status, answer |-> calls[c].answer] = OwnAnswer(c))

\* one request failed and another, in flight at the same time, succeeded
C12_Witness ==
  \E c, d \in CallIds :
    /\ Answered(c) /\ calls[c].status = 500 /\ calls[c].posts = 1
    /\ Answered(d) /\ calls[d].status = 200

(***************************************************************************)
(* Properties of the pipeline                                              *)
(***************************************************************************)
\* the <part> elements the document declares
DeclaredParts ==
  {wsdl.message[i].part[j] : i \in 1..Len(wsdl.message), j \in 1..1}

\* the properties a JSON schema lists as required: the OpenAPISchema struct
\* has no such field and the marshalled schema no "required" key
RequiredProperties(schema) == {}

\* the fields of types.go that carry a part of the given name
GoFieldsOf(partName) ==
  {f \in UNION {{goTypes[i].fields[j] : j \in 1..Len(goTypes[i].fields)} : i \in 1..Len(goTypes)} :
     f.xmlTag = partName}

\* the object schemas of the document's request and response bodies
BodySchemas ==
  UNION {LET op == openAPI.Paths[path].Post IN
           (IF op.RequestBody # Nil THEN {op.RequestBody.Schema} ELSE {})
           \cup (IF "200" \in DOMAIN op.Responses THEN {op.Responses["200"].Schema} ELSE {})
         : path \in DOMAIN openAPI.Paths}

\* C14: a string part declared with minOccurs="0" is an optional (pointer)
\* field of types.go, a non-required property of the OpenAPI schema and an
\* optional property of the TypeScript interface; a string part of default
\* multiplicity is required in all three
C14_OptionalInAllTargets ==
  \A part \in DeclaredParts :
    part.type = <<"x","s","d",":","s","t","r","i","n","g">> =>
      LET optional == part.minOccurs = "0" IN
      /\ "go" \in pipeDone =>
           \A f \in GoFieldsOf(part.name) : HasPrefix(f.fieldType, <<"*">>) <=> optional
      /\ "openapi" \in pipeDone =>
           \A schema \in BodySchemas :
             (schema.Properties # Nil /\ part.name \in DOMAIN schema.Properties) =>
               (part.name \notin RequiredProperties(schema) <=> optional)
      /\ "ts" \in pipeDone =>
           \A t \in tsTypes :
             (t.props # <<>> /\ part.name \in DOMAIN t.props) =>
               (t.props[part.name].optional <=> optional)

\* the location attributes of the document's ports, in document order
RECURSIVE PortLocations(_)
PortLocations(services) ==
  IF services = <<>> THEN <<>>
  ELSE [j \in 1..Len(Head(services).port) |-> Head(services).port[j].address]
         \o PortLocations(Tail(services))

DeclaredOperations ==
  UNION {{wsdl.portType[i].operation[j] : j \in 1..Len(wsdl.portType[i].operation)} :
           i \in 1..Len(wsdl.portType)}

\* whether a message reference of the document names one of its messages
Resolves(ref) ==
  \E i \in 1..Len(wsdl.message) : StripPrefix(wsdl.message[i].name) = StripPrefix(ref)

EmittersParts(ref) ==
  IF findMessage(definitions, ref) = Nil THEN <<>> ELSE findMessage(definitions, ref).Parts

\* C24: the bridge's operation info handler resolves an operation's input
\* and output message as the generator and the exporter do, by the local
\* names of reference and message, so GET /api/<op>/info lists exactly the
\* parts the emitters use for the operation
C24_SameMessageLookup ==
  opInfo # Nil =>
    /\ opInfo.input.parts = EmittersParts(opInfo.input.message)
    /\ opInfo.output.parts = EmittersParts(opInfo.output.message)

\* C25: for every operation the SOAP action the bridge looks up equals the
\* SOAP action compiled into the generated operator, also when several
\* bindings declare the operation with different SOAP actions
C25_SameSoapAction ==
  ("go" \in pipeDone /\ opInfo # Nil) =>
    \A i \in 1..Len(operators) :
      operators[i].operation = opInfo.operation =>
        operators[i].soapAction = opInfo.soapAction

\* the names of the structs types.go declares
DeclaredStructs == {goTypes[i].name : i \in 1..Len(goTypes)}

\* the fields types.go declares for the struct of the given name
DeclaredFields(struct) ==
  UNION {{goTypes[i].fields[j].fieldName : j \in 1..Len(goTypes[i].fields)} :
           i \in {k \in 1..Len(goTypes) : goTypes[k].name = struct}}

\* C26: the request struct an operator function instantiates, the response
\* struct it declares and the result field it returns are declared in
\* types.go under the same names, and so is every <Op>Response a mock
\* handler refers to, also for operations whose messages do not resolve
C26_OperatorsUseDeclaredTypes ==
  "go" \in pipeDone =>
    /\ \A i \in 1..Len(operators) :
         /\ operators[i].request.struct \in DeclaredStructs
         /\ operators[i].response \in DeclaredStructs
         /\ operators[i].result \in DeclaredFields(operators[i].response)
    /\ mockHandlers # Nil =>
         \A i \in 1..Len(mockHandlers) : mockHandlers[i].response \in DeclaredStructs

\* how often a (method, path) pair is among the registered routes
Registered(method, path) ==
  Cardinality({k \in 1..Len(routes) : routes[k] = [method |-> method, path |-> path]})

\* C30: setupRoutes registers no (method, path) pair twice, so after Start
\* there is exactly one POST /api/<name> and one GET /api/<name>/info for
\* each distinct operation name of the parsed definitions and the router
\* did not fail, also when a name occurs in more than one portType
C30_RoutesRegisteredOnce ==
  "routes" \in pipeDone =>
    /\ ~routerPanic
    /\ \A op \in RoutedOperations(definitions) :
         /\ Registered("POST", <<"/","a","p","i","/">> \o op.Name) = 1
         /\ Registered("GET", <<"/","a","p","i","/">> \o op.Name \o <<"/","i","n","f","o">>) = 1

(***************************************************************************)
(* Specifications                                                          *)
(***************************************************************************)
InitNormalize == NormInit /\ ProjIdle /\ SecIdle /\ CodecIdle /\ GenIdle /\ ServeIdle /\ PipeIdle /\ LogIdle /\ EmitIdle /\ InfoIdle

SpecNormalize == InitNormalize /\ [][NormNext]_vars

InitProject == ProjInit /\ NormIdle /\ SecIdle /\ CodecIdle /\ GenIdle /\ ServeIdle /\ PipeIdle /\ LogIdle /\ EmitIdle /\ InfoIdle

SpecProject == InitProject /\ [][ProjNext]_vars

InitSecurity == SecInit /\ ProjIdle /\ NormIdle /\ CodecIdle /\ GenIdle /\ ServeIdle /\ PipeIdle /\ LogIdle /\ EmitIdle /\ InfoIdle

SpecSecurity == InitSecurity /\ [][SecNext]_vars

InitCodec == CodecInit /\ ProjIdle /\ NormIdle /\ GenIdle /\ ServeIdle /\ PipeIdle /\ LogIdle /\ EmitIdle /\ InfoIdle

SpecCodec == InitCodec /\ [][CodecNext]_vars

InitGenerate == GenInit /\ ProjIdle /\ NormIdle /\ SecIdle /\ CodecIdle /\ ServeIdle /\ PipeIdle /\ LogIdle /\ EmitIdle /\ InfoIdle

SpecGenerate == InitGenerate /\ [][GenNext]_vars

InitServe == ServeInit /\ ProjIdle /\ NormIdle /\ SecIdle /\ GenIdle /\ PipeIdle /\ LogIdle /\ EmitIdle /\ InfoIdle

SpecServe == InitServe /\ [][ServeNext]_vars

InitPipeline == PipeInit /\ ProjIdle /\ NormIdle /\ SecIdle /\ CodecIdle /\ GenIdle /\ ServeIdle /\ LogIdle /\ EmitIdle /\ InfoIdle

SpecPipeline == InitPipeline /\ [][PipeNext]_vars

====
